---- MODULE Spec2Model ----
(***************************************************************************)
(* kubelogs: the SQLite store (write buffer, flush, dedup, query), the     *)
(* stream manager, the per-container stream, the batcher and the collector *)
(* shutdown, each as a state machine translated from the Go source.        *)
(***************************************************************************)
EXTENDS Integers, Sequences, FiniteSets, TLC

(***************************************************************************)
(* Bounds of the model.                                                    *)
(***************************************************************************)
MaxPending == 2
bufCap == 2
maxStreams == 2
ChanCap == 1
MaxLines == 2
batchSize == 2
MaxFailures == 2
\* maxRetryQueue is 100 and circuitThreshold 5 in the source; scaled down
maxRetryQueue == 1
circuitThreshold == 2

\* lines a container logs, their largest timestamp (ns), (re)opens of a stream
MaxLog == 3

MaxTs == 2

MaxOpens == 3

(***************************************************************************)
(* Generic helpers.                                                        *)
(***************************************************************************)
None == "none"

Range(s) == {s[i] : i \in 1..Len(s)}

Reverse(s) == [i \in 1..Len(s) |-> s[Len(s) + 1 - i]]

Take(s, n) == IF n >= Len(s) THEN s ELSE SubSeq(s, 1, n)

Min2(a, b) == IF a <= b THEN a ELSE b

(***************************************************************************)
(* Byte strings: a Go string is the sequence of its bytes.                 *)
(***************************************************************************)
StrA == <<97>>
StrAB == <<97, 98>>
StrBC == <<98, 99>>
StrC == <<99>>
StrD == <<100>>
StrMsg == <<109>>

(***************************************************************************)
(* storage.Severity                                                        *)
(***************************************************************************)
SeverityUnknown == 0
SeverityInfo == 3
SeverityError == 5

(***************************************************************************)
(* 64-bit FNV-1a, on four 16-bit limbs (least significant first).          *)
(***************************************************************************)
Limb == 65536

RECURSIVE Xor8(_, _, _)
Xor8(a, b, n) ==
    IF n = 0 THEN 0
    ELSE ((a + b) % 2) + 2 * Xor8(a \div 2, b \div 2, n - 1)

fnvOffset64 == <<8997, 33826, 40164, 52210>>

fnvPrimeLow == 435

\* h * 0x100000001b3 mod 2^64 = h * 435 + (h << 40)
FnvMul(h) ==
    LET m0 == h[1] * fnvPrimeLow
        m1 == h[2] * fnvPrimeLow + (m0 \div Limb)
        m2 == h[3] * fnvPrimeLow + (m1 \div Limb) + (h[1] % 256) * 256
        m3 == h[4] * fnvPrimeLow + (m2 \div Limb) + (h[1] \div 256)
                + (h[2] % 256) * 256
    IN  <<m0 % Limb, m1 % Limb, m2 % Limb, m3 % Limb>>

FnvByte(h, b) ==
    FnvMul(<<(h[1] \div 256) * 256 + Xor8(h[1] % 256, b, 8), h[2], h[3], h[4]>>)

RECURSIVE FnvWrite(_, _)
FnvWrite(h, bytes) ==
    IF bytes = <<>> THEN h
    ELSE FnvWrite(FnvByte(h, Head(bytes)), Tail(bytes))

\* binary.LittleEndian.PutUint64 of a small non-negative timestamp
LE64(n) ==
    <<n % 256, (n \div 256) % 256, (n \div 65536) % 256, 0, 0, 0, 0, 0>>

computeDedupHashNoSep(ts, namespace, pod, container, message) ==
    FnvWrite(fnvOffset64, LE64(ts) \o namespace \o pod \o container \o message)

computeDedupHash(ts, namespace, pod, container, message) ==
    FnvWrite(fnvOffset64,
             LE64(ts) \o namespace \o <<0>> \o pod \o <<0>> \o container
                 \o <<0>> \o message)

(***************************************************************************)
(* storage.LogEntry values the writers use.  E1 and E1b share the dedup    *)
(* tuple and differ in severity; E1 and E2 differ only in where the        *)
(* namespace/pod boundary lies.                                            *)
(***************************************************************************)
MkEntry(ts, ns, pod, c, sev, msg) ==
    [ts |-> ts, ns |-> ns, pod |-> pod, container |-> c, sev |-> sev,
     msg |-> msg]

E1 == MkEntry(1, StrAB, StrC, StrD, SeverityInfo, StrMsg)
E1b == MkEntry(1, StrAB, StrC, StrD, SeverityError, StrMsg)
E2 == MkEntry(1, StrA, StrBC, StrD, SeverityError, StrMsg)
E3 == MkEntry(2, StrA, StrBC, StrD, SeverityInfo, StrMsg)

Entries == {E1, E1b, E2, E3}

DedupTuple(e) == <<e.ts, e.ns, e.pod, e.container, e.msg>>

\* the dedup tuples of the entries of a batch
Tuples(seq) == {DedupTuple(e) : e \in Range(seq)}

\* the dedup tuples of the rows of a table
RowTuples(rs) == {DedupTuple(rs[i].e) : i \in 1..Len(rs)}

HashTable ==
    [e \in Entries |->
        computeDedupHash(e.ts, e.ns, e.pod, e.container, e.msg)]

Batches == {<<e>> : e \in Entries} \cup {<<E1b, E2>>}


(***************************************************************************)
(* State.                                                                  *)
(*   Store (sqlite.Store): buffer, rows of table logs, writeMu, and the    *)
(*   position of every goroutine that is inside Write, Flush or Query.     *)
(*   committed, ignored and requeued record what the flushes have done:    *)
(*   the dedup tuples of the committed batches, whether an insert was      *)
(*   ignored, whether a failed flush re-queued ahead of newer entries.     *)
(*   txn counts the inserts executed in the open transaction.              *)
(*   qsnap: the dedup tuples of the entries accepted by Write calls that   *)
(*   had returned when the running Query was invoked.                      *)
(***************************************************************************)
VARIABLES buffer, rows, writeMu, spc, sop, sbatch, page1, page2,
          committed, ignored, requeued, txn, qsnap, wall, wdone, wbefore,
          closed, dbClosed, cbatch, lastClosed, dcutoff, lastDeleted,
          RetentionDays, rpc, rctx, totalRuns, totalDeleted, logAges,
          gpc, gid, gstore, gcode, gres,
          mpc, mtable, hasColumn, hasIndex, merr, morig, rbatch

\* wall: the dedup tuples of the entries handed to Write; wdone: those whose
\* Write has returned; wbefore: the pairs of which the first's Write returned
\* before the second's began
ordVars == <<wall, wdone, wbefore>>

\* closed: s.closed; dbClosed: s.db.Close() was called; cbatch: the batch
\* Close took from the buffer; lastClosed: the last call that returned
\* ErrStorageClosed; dcutoff: olderThan of the Delete under way (ns);
\* lastDeleted: what the last Delete returned
\* the retention worker: its configuration, where Run stands, its context,
\* its counters, and the ages in days of the rows of its store
retVars == <<RetentionDays, rpc, rctx, totalRuns, totalDeleted, logAges>>

\* what stands beside the store and is left alone by its operations
\* a remote GetByID: where the call stands, the id asked for, what the
\* server's store returned, the status code on the wire, the client's return
getVars == <<gpc, gid, gstore, gcode, gres>>

\* opening an existing database: where runMigrations stands, the rows of
\* the table logs, whether it has the column dedup_hash and the index
\* idx_logs_dedup, the error New returns, and the rows as they were found
migVars == <<mpc, mtable, hasColumn, hasIndex, merr, morig>>

\* the batch processRetryQueue has taken from the head of the retry queue
\* and is writing (empty when no retry is under way); it stands here because
\* only the split retry steps change it
retryVars == <<rbatch>>

srvVars == <<retVars, getVars, migVars, retryVars>>

admVars ==
    <<closed, dbClosed, cbatch, lastClosed, dcutoff, lastDeleted, srvVars>>

storeVars ==
    <<buffer, rows, writeMu, spc, sop, sbatch, page1, page2,
      committed, ignored, requeued, txn, qsnap, ordVars, admVars>>

Procs == {"g1", "g2"}

(***************************************************************************)
(* The table logs: INTEGER PRIMARY KEY id, unique index on dedup_hash.     *)
(***************************************************************************)
NextId(rs) == IF rs = <<>> THEN 1 ELSE rs[Len(rs)].id + 1

InsertAlways(rs, e) ==
    Append(rs, [id |-> NextId(rs), e |-> e, h |-> HashTable[e]])

\* INSERT OR IGNORE INTO logs (..., dedup_hash) VALUES (...)
InsertOrIgnore(rs, e) ==
    IF \E i \in 1..Len(rs) : rs[i].h = HashTable[e]
    THEN rs
    ELSE Append(rs, [id |-> NextId(rs), e |-> e, h |-> HashTable[e]])

RECURSIVE InsertBatch(_, _)
InsertBatch(rs, batch) ==
    IF batch = <<>> THEN rs
    ELSE InsertBatch(InsertOrIgnore(rs, Head(batch)), Tail(batch))

\* whether inserting the batch leaves at least one of its entries out
Ignores(rs, batch) == Len(InsertBatch(rs, batch)) < Len(rs) + Len(batch)

(***************************************************************************)
(* storage.Query and buildQuery / Store.Query.  Search and attribute       *)
(* predicates are not part of the model's queries.                         *)
(***************************************************************************)
OrderDesc == 0
OrderAsc == 1
defaultQueryLimit == 100

MkQuery(ns, minSev, startT, endT, afterId, beforeId, order, limit) ==
    [ns |-> ns, minSev |-> minSev, startT |-> startT, endT |-> endT,
     afterId |-> afterId, beforeId |-> beforeId, order |-> order,
     limit |-> limit]

Queries ==
    {MkQuery(<<>>, SeverityUnknown, 0, 0, 0, 0, ord, lim) :
        ord \in {OrderDesc, OrderAsc}, lim \in {1, 2}}
        \cup {MkQuery(<<>>, SeverityUnknown, 0, 0, 0, 0, OrderDesc, 0),
              MkQuery(StrA, SeverityError, 0, 0, 0, 0, OrderAsc, 1),
              MkQuery(<<>>, SeverityUnknown, 1, 2, 0, 0, OrderDesc, 1)}

\* the WHERE clause built by buildQuery
Matches(r, q) ==
    /\ q.startT # 0 => r.e.ts >= q.startT
    /\ q.endT # 0 => r.e.ts < q.endT
    /\ q.ns # <<>> => r.e.ns = q.ns
    /\ q.minSev > SeverityUnknown => r.e.sev >= q.minSev
    /\ q.afterId > 0 => r.id > q.afterId
    /\ q.beforeId > 0 => r.id < q.beforeId

EffLimit(q) == IF q.limit <= 0 THEN defaultQueryLimit ELSE q.limit

\* ORDER BY l.id ASC|DESC LIMIT limit+1
buildQuery(rs, q) ==
    LET sel == SelectSeq(rs, LAMBDA r : Matches(r, q))
        ord == IF q.order = OrderAsc THEN sel ELSE Reverse(sel)
    IN  Take(ord, EffLimit(q) + 1)

Ids(rs) == [i \in 1..Len(rs) |-> rs[i].id]

\* Store.Query after its flush: the QueryResult
QueryResult(rs, q) ==
    LET got == buildQuery(rs, q)
        limit == EffLimit(q)
    IN  IF Len(got) > limit
        THEN [entries |-> Ids(Take(got, limit)), hasMore |-> TRUE,
              nextCursor |-> got[limit + 1].id]
        ELSE [entries |-> Ids(got), hasMore |-> FALSE, nextCursor |-> 0]

NoPage == [q |-> None]

\* the accepted entries that are not persisted yet: the live buffer and the
\* batches that flushes have taken
RECURSIVE Concat(_, _)
Concat(f, S) ==
    IF S = {} THEN <<>>
    ELSE LET x == CHOOSE y \in S : TRUE IN f[x] \o Concat(f, S \ {x})

Pending == buffer \o Concat(sbatch, Procs)

(***************************************************************************)
(* Store operations.                                                       *)
(***************************************************************************)
\* no call has found the store closed
NoCall == [op |-> None, by |-> None]

\* no Delete has returned
NoResult == [n |-> 0, err |-> None]

\* the retention worker before the server has read its configuration
RetIdle ==
    /\ RetentionDays = 0
    /\ rpc = "off"
    /\ rctx = FALSE
    /\ totalRuns = 0
    /\ totalDeleted = 0
    /\ logAges = {}

\* what GetByID returns: the row found, or an error
NoEntry == [id |-> 0, err |-> None]

GetIdle ==
    /\ gpc = "idle"
    /\ gid = 0
    /\ gstore = NoEntry
    /\ gcode = None
    /\ gres = NoEntry

MigIdle ==
    /\ mpc = "none"
    /\ mtable = {}
    /\ hasColumn = FALSE
    /\ hasIndex = FALSE
    /\ merr = None
    /\ morig = {}

RetryIdle == rbatch = <<>>

SrvIdle == RetIdle /\ GetIdle /\ MigIdle /\ RetryIdle

StoreInit ==
    /\ buffer = <<>>
    /\ rows = <<>>
    /\ writeMu = None
    /\ spc = [p \in Procs |-> "idle"]
    /\ sop = [p \in Procs |-> None]
    /\ sbatch = [p \in Procs |-> <<>>]
    /\ page1 = NoPage
    /\ page2 = NoPage
    /\ committed = {}
    /\ ignored = FALSE
    /\ requeued = FALSE
    /\ txn = 0
    /\ qsnap = {}
    /\ wall = {}
    /\ wdone = {}
    /\ wbefore = {}
    /\ closed = FALSE
    /\ dbClosed = FALSE
    /\ cbatch = <<>>
    /\ lastClosed = NoCall
    /\ dcutoff = 0
    /\ lastDeleted = NoResult
    /\ SrvIdle

\* Store.Write: append under mu, then Flush when the buffer reached bufCap.
\* With track, the call order of first-time entries is recorded, for the
\* calls that return without a flush.
WriteAs(p, track) ==
    /\ spc[p] = "idle"
    /\ \E entries \in Batches :
        /\ Len(Pending) + Len(entries) <= MaxPending
        /\ buffer' = buffer \o entries
        /\ IF Len(buffer') >= bufCap
           THEN /\ spc' = [spc EXCEPT ![p] = "flush"]
                /\ sop' = [sop EXCEPT ![p] = "write"]
           ELSE UNCHANGED <<spc, sop>>
        /\ IF track
           THEN LET fresh == Tuples(entries) \ wall
                IN  /\ wall' = wall \cup fresh
                    /\ wbefore' = wbefore \cup (wdone \X fresh)
                    /\ wdone' = IF Len(buffer') >= bufCap THEN wdone
                                ELSE wdone \cup fresh
           ELSE UNCHANGED ordVars
    /\ UNCHANGED <<rows, writeMu, sbatch, page1, page2, committed, ignored,
                   requeued, txn, qsnap>>
    /\ UNCHANGED admVars

Write(p) == WriteAs(p, FALSE)

WriteTracked(p) == WriteAs(p, TRUE)

\* a Write of entries that differ from each other and from all written before
WriteFresh(p) ==
    /\ WriteTracked(p)
    /\ Cardinality(wall') = Cardinality(wall) + Len(buffer') - Len(buffer)

\* a caller enters Store.Flush
FlushCall(p) ==
    /\ spc[p] = "idle"
    /\ spc' = [spc EXCEPT ![p] = "flush"]
    /\ sop' = [sop EXCEPT ![p] = "flush"]
    /\ UNCHANGED <<buffer, rows, writeMu, sbatch, page1, page2, committed,
                   ignored, requeued, txn, qsnap>>
    /\ UNCHANGED ordVars
    /\ UNCHANGED admVars

\* the dedup tuples of the entries taken by the Write calls that have
\* returned: with no Write call under way, all that is buffered, in a
\* flush or in the table
Accepted ==
    IF \A p \in Procs : sop[p] # "write"
    THEN Tuples(Pending) \cup RowTuples(rows)
    ELSE RowTuples(rows)

\* a caller enters Store.Query, which flushes first
QueryCall(p) ==
    /\ spc[p] = "idle"
    /\ spc' = [spc EXCEPT ![p] = "flush"]
    /\ sop' = [sop EXCEPT ![p] = "query"]
    /\ qsnap' = Accepted
    /\ UNCHANGED <<buffer, rows, writeMu, sbatch, page1, page2, committed,
                   ignored, requeued, txn>>
    /\ UNCHANGED ordVars
    /\ UNCHANGED admVars

\* where the caller of Flush continues once Flush returned
AfterFlush(p, ok) == IF sop[p] = "query" /\ ok THEN "read" ELSE "idle"

\* sop of a goroutine that is in no operation is None
AfterOp(p, ok) == IF sop[p] = "query" /\ ok THEN sop[p] ELSE None

\* Flush step 1: swap the buffer under mu (return nil when it is empty)
FlushSwap(p) ==
    /\ spc[p] = "flush"
    /\ IF buffer = <<>>
       THEN /\ spc' = [spc EXCEPT ![p] = AfterFlush(p, TRUE)]
            /\ sop' = [sop EXCEPT ![p] = AfterOp(p, TRUE)]
            /\ UNCHANGED <<buffer, sbatch>>
       ELSE /\ sbatch' = [sbatch EXCEPT ![p] = buffer]
            /\ buffer' = <<>>
            /\ spc' = [spc EXCEPT ![p] = "lock"]
            /\ UNCHANGED sop
    /\ UNCHANGED <<rows, writeMu, page1, page2, committed, ignored, requeued,
                   txn, qsnap>>
    /\ UNCHANGED ordVars
    /\ UNCHANGED admVars

\* Flush step 2: s.writeMu.Lock()
FlushLock(p) ==
    /\ spc[p] = "lock"
    /\ writeMu = None
    /\ writeMu' = p
    /\ spc' = [spc EXCEPT ![p] = "tx"]
    /\ txn' = 0
    /\ UNCHANGED <<buffer, rows, sop, sbatch, page1, page2, committed,
                   ignored, requeued>>
    /\ UNCHANGED qsnap
    /\ UNCHANGED ordVars
    /\ UNCHANGED admVars

\* Flush step 3: BeginTx and PrepareContext succeeded; one more
\* stmt.ExecContext inside the transaction
FlushExec(p) ==
    /\ spc[p] = "tx"
    /\ txn < Len(sbatch[p])
    /\ txn' = txn + 1
    /\ UNCHANGED <<buffer, rows, writeMu, spc, sop, sbatch, page1, page2,
                   committed, ignored, requeued>>
    /\ UNCHANGED qsnap
    /\ UNCHANGED ordVars
    /\ UNCHANGED admVars

RollbackPartial(rs, batch, n) == InsertBatch(rs, Take(batch, n))

\* defer tx.Rollback(): the n inserts made in the transaction are undone
Rollback(rs, batch, n) == rs

RequeueTail(batch, buf) == buf \o batch

\* the batch of a failed flush given up
RequeueDrop(batch, buf) == buf

\* s.buffer = append(batch, s.buffer...)
Requeue(batch, buf) == batch \o buf

FlushErrors == {"ctx", "begin", "prepare", "insert", "commit"}

\* the errors Flush can meet after n of the batch's inserts were executed
ErrorsAt(batch, n) ==
    (IF n = 0 THEN {"ctx", "begin", "prepare"} ELSE {})
        \cup (IF n < Len(batch) THEN {"insert"} ELSE {"commit"})

\* Flush step 3, failing: ctx.Err(), BeginTx, PrepareContext, ExecContext
\* or Commit returned an error; the batch is re-queued and writeMu released.
\* Whether a Commit that returned an error took effect is not known.
FlushFail(p) ==
    /\ spc[p] = "tx"
    /\ \E err \in FlushErrors, took \in BOOLEAN :
        /\ err \in ErrorsAt(sbatch[p], txn)
        /\ took => err = "commit"
        /\ rows' = IF took THEN InsertBatch(rows, sbatch[p])
                  ELSE Rollback(rows, sbatch[p], txn)
        /\ committed' =
             IF took
             THEN committed \cup {DedupTuple(e) : e \in Range(sbatch[p])}
             ELSE committed
        /\ ignored' = (ignored \/ (took /\ Ignores(rows, sbatch[p])))
    /\ buffer' = Requeue(sbatch[p], buffer)
    /\ requeued' = (requeued \/ buffer # <<>>)
    /\ sbatch' = [sbatch EXCEPT ![p] = <<>>]
    /\ writeMu' = None
    /\ txn' = 0
    /\ spc' = [spc EXCEPT ![p] = AfterFlush(p, FALSE)]
    /\ sop' = [sop EXCEPT ![p] = AfterOp(p, FALSE)]
    /\ qsnap' = IF sop[p] = "query" THEN {} ELSE qsnap
    /\ UNCHANGED <<page1, page2>>
    /\ UNCHANGED ordVars
    /\ UNCHANGED admVars

\* Flush step 3, succeeding: every entry inserted, transaction committed
FlushCommit(p) ==
    /\ spc[p] = "tx"
    /\ txn = Len(sbatch[p])
    /\ txn' = 0
    /\ rows' = InsertBatch(rows, sbatch[p])
    /\ committed' = committed \cup {DedupTuple(e) : e \in Range(sbatch[p])}
    /\ ignored' = (ignored \/ Ignores(rows, sbatch[p]))
    /\ sbatch' = [sbatch EXCEPT ![p] = <<>>]
    /\ writeMu' = None
    /\ spc' = [spc EXCEPT ![p] = AfterFlush(p, TRUE)]
    /\ sop' = [sop EXCEPT ![p] = AfterOp(p, TRUE)]
    /\ UNCHANGED <<buffer, page1, page2, requeued>>
    /\ UNCHANGED qsnap
    /\ UNCHANGED ordVars
    /\ UNCHANGED admVars

\* db.SetMaxOpenConns(1): s.db.QueryContext waits while the transaction of a
\* flush holds the connection
ConnFree == txn = 0

\* Store.Query after its flush returned nil: a first page, for a query of Q
QueryRead(p, Q) ==
    /\ spc[p] = "read"
    /\ ConnFree
    /\ qsnap' = {}
    /\ \E q \in Q :
        page1' = [q |-> q, res |-> QueryResult(rows, q)]
    /\ page2' = NoPage
    /\ spc' = [spc EXCEPT ![p] = "idle"]
    /\ sop' = [sop EXCEPT ![p] = None]
    /\ UNCHANGED <<buffer, rows, writeMu, sbatch, committed, ignored, requeued,
                   txn>>
    /\ UNCHANGED ordVars
    /\ UNCHANGED admVars

QueryFirst(p) == QueryRead(p, Queries)

\* Store.Query after its flush returned nil: the page that follows page1,
\* the same query with afterId = nextCursor.  seen records how many rows the
\* table held (rows are only ever appended here), prev the page before;
\* the client has then used up the cursor of page1.
QueryAfter(p) ==
    /\ spc[p] = "read"
    /\ ConnFree
    /\ qsnap' = {}
    /\ page1 # NoPage
    /\ page1.res.hasMore
    /\ LET q == [page1.q EXCEPT !.afterId = page1.res.nextCursor]
       IN  page2' = [q |-> q, res |-> QueryResult(rows, q),
                     seen |-> Len(rows), prev |-> page1.res]
    /\ page1' = NoPage
    /\ spc' = [spc EXCEPT ![p] = "idle"]
    /\ sop' = [sop EXCEPT ![p] = None]
    /\ UNCHANGED <<buffer, rows, writeMu, sbatch, committed, ignored, requeued,
                   txn>>
    /\ UNCHANGED ordVars
    /\ UNCHANGED admVars

(***************************************************************************)
(* Store.Close, the closed check of every operation, and Store.Delete.     *)
(* Close's own inserts are taken to succeed (their errors are not looked   *)
(* at in the source).                                                      *)
(***************************************************************************)
StoreOps == {"Write", "Flush", "Query", "GetByID", "Delete", "Stats"}

\* olderThan.UnixNano() of the Delete calls
Cutoffs == {1, 2, 3}

\* an operation that does not look at s.closed
isClosedNever == FALSE

\* s.mu.Lock(); if s.closed { s.mu.Unlock(); return ..., ErrStorageClosed }
isClosed == closed

\* Write, Flush, Query, GetByID, Delete or Stats called on a closed store
CallClosed(p) ==
    /\ spc[p] = "idle"
    /\ isClosed
    /\ \E op \in StoreOps : lastClosed' = [op |-> op, by |-> p]
    /\ UNCHANGED <<buffer, rows, writeMu, spc, sop, sbatch, page1, page2,
                   committed, ignored, requeued, txn, qsnap, ordVars>>
    /\ UNCHANGED <<closed, dbClosed, cbatch, dcutoff, lastDeleted, srvVars>>

WriteOpen(p) == ~isClosed /\ WriteFresh(p)

FlushCallOpen(p) == ~closed /\ FlushCall(p)

FlushSwapOpen(p) == ~isClosed /\ FlushSwap(p)

\* Flush, entered before Close, finds s.closed set: the Flush, or the Write
\* that called it, returns ErrStorageClosed
FlushSwapClosed(p) ==
    /\ spc[p] = "flush"
    /\ isClosed
    /\ lastClosed' = [op |-> IF sop[p] = "write" THEN "Write" ELSE "Flush",
                      by |-> p]
    /\ spc' = [spc EXCEPT ![p] = "idle"]
    /\ sop' = [sop EXCEPT ![p] = None]
    /\ UNCHANGED <<buffer, rows, writeMu, sbatch, page1, page2, committed,
                   ignored, requeued, txn, qsnap, ordVars>>
    /\ UNCHANGED <<closed, dbClosed, cbatch, dcutoff, lastDeleted, srvVars>>

FlushExecOpen(p) == ~dbClosed /\ FlushExec(p)

FlushCommitOpen(p) == ~dbClosed /\ FlushCommit(p)

\* Flush got writeMu after Close had closed the database: BeginTx fails and
\* the batch is re-queued
FlushOnClosedDB(p) ==
    /\ dbClosed
    /\ txn = 0
    /\ FlushFail(p)
    /\ rows' = rows

\* Close, first part: under mu, set closed and take the buffer
CloseCall(p) ==
    /\ spc[p] = "idle"
    /\ ~closed
    /\ closed' = TRUE
    /\ cbatch' = buffer
    /\ buffer' = <<>>
    /\ spc' = [spc EXCEPT ![p] = "closelock"]
    /\ sop' = [sop EXCEPT ![p] = "close"]
    /\ UNCHANGED <<rows, writeMu, sbatch, page1, page2, committed, ignored,
                   requeued, txn, qsnap, ordVars>>
    /\ UNCHANGED <<dbClosed, lastClosed, dcutoff, lastDeleted, srvVars>>

\* Close: s.writeMu.Lock()
CloseLock(p) ==
    /\ spc[p] = "closelock"
    /\ writeMu = None
    /\ writeMu' = p
    /\ spc' = [spc EXCEPT ![p] = "closetx"]
    /\ UNCHANGED <<buffer, rows, sop, sbatch, page1, page2, committed,
                   ignored, requeued, txn, qsnap, ordVars>>
    /\ UNCHANGED admVars

\* Close: insert the batch it took, commit, s.db.Close(), unlock
CloseFlush(p) ==
    /\ spc[p] = "closetx"
    /\ rows' = InsertBatch(rows, cbatch)
    /\ committed' = committed \cup {DedupTuple(e) : e \in Range(cbatch)}
    /\ ignored' = (ignored \/ Ignores(rows, cbatch))
    /\ cbatch' = <<>>
    /\ dbClosed' = TRUE
    /\ writeMu' = None
    /\ spc' = [spc EXCEPT ![p] = "idle"]
    /\ sop' = [sop EXCEPT ![p] = None]
    /\ UNCHANGED <<buffer, sbatch, page1, page2, requeued, txn, qsnap,
                   ordVars>>
    /\ UNCHANGED <<closed, lastClosed, dcutoff, lastDeleted, srvVars>>

\* Close on a closed store: return nil
CloseAgain(p) ==
    /\ spc[p] = "idle"
    /\ closed
    /\ lastClosed' = [op |-> "Close", by |-> p]
    /\ UNCHANGED <<buffer, rows, writeMu, spc, sop, sbatch, page1, page2,
                   committed, ignored, requeued, txn, qsnap, ordVars>>
    /\ UNCHANGED <<closed, dbClosed, cbatch, dcutoff, lastDeleted, srvVars>>

\* a DELETE that also takes the rows stamped with the cutoff itself
olderThanOrAt(ts, c) == ts <= c

\* DELETE FROM logs WHERE timestamp < ?
olderThan(ts, c) == ts < c

RECURSIVE DeleteFrom(_, _)
DeleteFrom(rs, c) ==
    IF rs = <<>> THEN <<>>
    ELSE IF olderThan(Head(rs).e.ts, c) THEN DeleteFrom(Tail(rs), c)
         ELSE <<Head(rs)>> \o DeleteFrom(Tail(rs), c)

\* Delete: the closed check under mu
DeleteCall(p) ==
    /\ spc[p] = "idle"
    /\ ~isClosed
    /\ \E c \in Cutoffs : dcutoff' = c
    /\ spc' = [spc EXCEPT ![p] = "delete"]
    /\ sop' = [sop EXCEPT ![p] = "delete"]
    /\ UNCHANGED <<buffer, rows, writeMu, sbatch, page1, page2, committed,
                   ignored, requeued, txn, qsnap, ordVars>>
    /\ UNCHANGED <<closed, dbClosed, cbatch, lastClosed, lastDeleted, srvVars>>

\* Delete: under writeMu, the DELETE statement and RowsAffected
DeleteExec(p) ==
    /\ spc[p] = "delete"
    /\ writeMu = None
    /\ IF dbClosed
       THEN /\ lastDeleted' = [n |-> 0, err |-> "delete"]
            /\ UNCHANGED rows
       ELSE /\ rows' = DeleteFrom(rows, dcutoff)
            /\ lastDeleted' = [n |-> Len(rows) - Len(rows'), err |-> None]
    /\ spc' = [spc EXCEPT ![p] = "idle"]
    /\ sop' = [sop EXCEPT ![p] = None]
    /\ UNCHANGED <<buffer, writeMu, sbatch, page1, page2, committed, ignored,
                   requeued, txn, qsnap, ordVars>>
    /\ UNCHANGED <<closed, dbClosed, cbatch, lastClosed, dcutoff, srvVars>>




(***************************************************************************)
(* GetByID: the SQLite store, the gRPC server in front of it and the       *)
(* remote client.                                                          *)
(***************************************************************************)
\* ids asked for
LookupIds == {1, 2, 3}

\* gRPC status codes that occur: those the server sets and one set by the
\* transport
Codes == {"OK", "NotFound", "Internal", "Unavailable"}

\* Store.GetByID: the closed check, then SELECT ... WHERE id = ?;
\* sql.ErrNoRows becomes storage.ErrNotFound, any other error is wrapped
StoreGetByID(id, dberr) ==
    IF closed THEN [id |-> 0, err |-> "ErrStorageClosed"]
    ELSE IF dberr THEN [id |-> 0, err |-> "query"]
    ELSE IF \E i \in 1..Len(rows) : rows[i].id = id
            THEN [id |-> id, err |-> None]
            ELSE [id |-> 0, err |-> "ErrNotFound"]

\* Server.GetByID: errors.Is(err, storage.ErrNotFound) -> codes.NotFound,
\* any other error -> codes.Internal
serverCode(r) ==
    IF r.err = None THEN "OK"
    ELSE IF r.err = "ErrNotFound" THEN "NotFound"
    ELSE "Internal"

\* the client returning every status as it came
clientErrAsIs(code) == code

\* Client.GetByID: status.Code(err) == codes.NotFound -> storage.ErrNotFound,
\* any other error is returned as it is
clientErr(code) ==
    IF code = "OK" THEN None
    ELSE IF code = "NotFound" THEN "ErrNotFound"
    ELSE code

\* Client.GetByID sends the request
GetCall ==
    /\ gpc = "idle"
    /\ \E id \in LookupIds : gid' = id
    /\ gpc' = "rpc"
    /\ gstore' = NoEntry
    /\ gcode' = None
    /\ gres' = NoEntry

\* the call fails before it reaches the server
GetUnavailable ==
    /\ gpc = "rpc"
    /\ gcode' = "Unavailable"
    /\ gpc' = "resp"
    /\ UNCHANGED <<gid, gstore, gres>>

\* Server.GetByID: s.store.GetByID and the status it answers with
GetServe ==
    /\ gpc = "rpc"
    /\ \E dberr \in BOOLEAN : gstore' = StoreGetByID(gid, dberr)
    /\ gcode' = serverCode(gstore')
    /\ gpc' = "resp"
    /\ UNCHANGED <<gid, gres>>

\* Client.GetByID returns
GetReturn ==
    /\ gpc = "resp"
    /\ gres' = [id |-> IF gcode = "OK" THEN gstore.id ELSE 0,
                err |-> clientErr(gcode)]
    /\ gpc' = "idle"
    /\ UNCHANGED <<gid, gstore, gcode>>


(***************************************************************************)
(* Opening an existing database: runMigrations, backfillDedupHashes and    *)
(* deduplicateHashes.  A row is its id, the dedup hash computed from its   *)
(* content (h) and the value of its column dedup_hash (dh, 0 for NULL).    *)
(***************************************************************************)
\* the most rows a database is opened with
MaxRows == 3

\* rows one statement of backfillDedupHashes or deduplicateHashes handles
\* (batchSize, 10000 in the code)
migBatch == 2

\* computed dedup hashes
Hashes == {1, 2}

\* the databases New may find: without the column no row has a dedup_hash;
\* with the index no two rows share one
FoundTables(col, idx) ==
    {t \in UNION {{ {[id |-> i, h |-> hs[i], dh |-> IF ds[i] THEN hs[i] ELSE 0]
                        : i \in 1..n}
                    : hs \in [1..n -> Hashes], ds \in [1..n -> BOOLEAN]}
                  : n \in 0..MaxRows} :
        /\ ~col => \A r \in t : r.dh = 0
        /\ idx => \A r1, r2 \in t : (r1.dh = r2.dh /\ r1.dh # 0) => r1 = r2}

\* the subsets of S a LIMIT migBatch query may return
Limited(S) ==
    {B \in SUBSET S : Cardinality(B) = Min2(migBatch, Cardinality(S))}

\* rows deduplicateHashes selects: a dedup_hash shared with a smaller id
Duplicates(t) ==
    {r \in t : r.dh # 0 /\ \E r2 \in t : r2.dh = r.dh /\ r2.id < r.id}

\* New on a database file that holds the table logs
MigOpen ==
    /\ mpc = "none"
    /\ \E col \in BOOLEAN, idx \in BOOLEAN :
          /\ idx => col
          /\ hasColumn' = col
          /\ hasIndex' = idx
          /\ \E t \in FoundTables(col, idx) : mtable' = t /\ morig' = t
    /\ mpc' = "check"
    /\ merr' = None

\* runMigrations: columnExists, indexExists and the branch taken;
\* ALTER TABLE logs ADD COLUMN dedup_hash when the column is missing;
\* "asis" when column and index are both there and nothing is migrated
MigCheck ==
    /\ mpc = "check"
    /\ IF ~hasColumn
          THEN hasColumn' = TRUE /\ mpc' = "backfillNew"
          ELSE /\ UNCHANGED hasColumn
               /\ mpc' = IF hasIndex THEN "asis" ELSE "backfill"
    /\ UNCHANGED <<mtable, hasIndex, merr, morig>>

\* backfillDedupHashes: one batch of rows WHERE dedup_hash IS NULL gets its
\* computed hash; an empty batch ends the loop
MigBackfill ==
    /\ mpc \in {"backfillNew", "backfill"}
    /\ LET nulls == {r \in mtable : r.dh = 0}
       IN IF nulls = {}
             THEN /\ mpc' = IF mpc = "backfill" THEN "dedup" ELSE "index"
                  /\ UNCHANGED mtable
             ELSE /\ \E B \in Limited(nulls) :
                        mtable' = (mtable \ B)
                                  \cup {[r EXCEPT !.dh = r.h] : r \in B}
                  /\ UNCHANGED mpc
    /\ UNCHANGED <<hasColumn, hasIndex, merr, morig>>

\* deduplicateHashes: one DELETE ... LIMIT batch; no row affected ends the
\* loop
MigDedupWith(dups) ==
    /\ mpc = "dedup"
    /\ IF dups = {}
          THEN mpc' = "index" /\ UNCHANGED mtable
          ELSE /\ \E B \in Limited(dups) : mtable' = mtable \ B
               /\ UNCHANGED mpc
    /\ UNCHANGED <<hasColumn, hasIndex, merr, morig>>

MigDedup == MigDedupWith(Duplicates(mtable))

\* CREATE UNIQUE INDEX IF NOT EXISTS idx_logs_dedup ... WHERE dedup_hash IS
\* NOT NULL: fails when two rows share a dedup_hash, and New returns the
\* error
MigIndex ==
    /\ mpc = "index"
    /\ IF \E r1, r2 \in mtable : r1 # r2 /\ r1.dh = r2.dh /\ r1.dh # 0
          THEN /\ merr' = "create dedup index"
               /\ mpc' = "failed"
               /\ UNCHANGED hasIndex
          ELSE /\ hasIndex' = TRUE
               /\ mpc' = "done"
               /\ UNCHANGED merr
    /\ UNCHANGED <<mtable, hasColumn, morig>>

(***************************************************************************)
(* The retention worker: Config.RetentionEnabled, Config.RetentionCutoff,  *)
(* RetentionWorker.Run and runOnce.  The rows of its store are kept by     *)
(* their age in whole days at the time of a run.                            *)
(***************************************************************************)
\* the largest number of runs followed
MaxRuns == 2

\* ages of log rows, in days
Ages == {0, 1, 2}

\* 2^63 nanoseconds are more than 106751 and less than 106752 days:
\* math.MaxInt64 \div (24 * 3600 * 10^9)
MaxDurationDays == 106751

\* 2^64 nanoseconds lie strictly between 213503 and 213504 days
WrapDays == 213504

\* time.Now() in whole days since 1970; any clock of this century gives
\* the same runs
NowDays == 20000

\* values of KUBELOGS_RETENTION_DAYS that ConfigFromEnv accepts (n >= 0)
RetentionDaysSet == {0, 1, 200000}

RetentionEnabled == RetentionDays > 0

\* never: the cutoff computed in unbounded integers
cutoffWrapsNever(days) == FALSE

\* time.Now().Add(-time.Duration(days) * 24 * time.Hour).UnixNano() is
\* now - days * 24 h reduced to int64: it is the exact value while that is
\* at least -2^63 ns, and 2^64 ns more once it is not
cutoffWraps(days) == NowDays - days < -MaxDurationDays - 1

\* RetentionCutoff and the store's DELETE ... WHERE timestamp < cutoff, for
\* a row whose age is a whole days
olderThanCutoff(a) ==
    IF cutoffWraps(RetentionDays)
       THEN a > RetentionDays - WrapDays
       ELSE a > RetentionDays

\* the server reads its configuration and starts the worker
RConfigure ==
    /\ rpc = "off"
    /\ \E n \in RetentionDaysSet : RetentionDays' = n
    /\ rpc' = "run"
    /\ UNCHANGED <<rctx, totalRuns, totalDeleted, logAges>>

\* a row is written to the store
RLog ==
    /\ \E a \in Ages \ logAges : logAges' = logAges \cup {a}
    /\ UNCHANGED <<RetentionDays, rpc, rctx, totalRuns, totalDeleted>>

\* runOnce: Delete(ctx, cutoff); totalRuns counts the run whether or not
\* the store returned an error, totalDeleted only what a run removed
runOnce(ok) ==
    /\ totalRuns' = totalRuns + 1
    /\ IF ok
          THEN /\ logAges' = {a \in logAges : ~olderThanCutoff(a)}
               /\ totalDeleted' = totalDeleted
                                  + Cardinality(logAges \ logAges')
          ELSE UNCHANGED <<logAges, totalDeleted>>

\* the store's answers to Delete: an error under a cancelled context
DeleteOutcomes == IF rctx THEN {FALSE} ELSE {TRUE, FALSE}

\* Run: returns at once when retention is disabled, else the first runOnce
RStart ==
    /\ rpc = "run"
    /\ IF RetentionEnabled
          THEN /\ \E ok \in DeleteOutcomes : runOnce(ok)
               /\ rpc' = "loop"
          ELSE /\ rpc' = "done"
               /\ UNCHANGED <<totalRuns, totalDeleted, logAges>>
    /\ UNCHANGED <<RetentionDays, rctx>>

\* Run: case <-ticker.C
RTick ==
    /\ rpc = "loop"
    /\ totalRuns < MaxRuns
    /\ \E ok \in DeleteOutcomes : runOnce(ok)
    /\ UNCHANGED <<RetentionDays, rpc, rctx>>

\* Run: case <-ctx.Done()
RCtxDone ==
    /\ rpc = "loop"
    /\ rctx
    /\ rpc' = "done"
    /\ UNCHANGED <<RetentionDays, rctx, totalRuns, totalDeleted, logAges>>

\* the server cancels the worker's context
RCancel ==
    /\ ~rctx
    /\ rctx' = TRUE
    /\ UNCHANGED <<RetentionDays, rpc, totalRuns, totalDeleted, logAges>>

(***************************************************************************)
(* State of one Stream and of the container it follows.                    *)
(*   clog: the timestamps (ns) of the lines the container has logged;      *)
(*   sinceTime, lastSentTime: the stream's fields, 0 the zero time;        *)
(*   stpc: where Start/run stands; connSince, connPos: the sinceTime the   *)
(*   open request carried and the next line of clog the scanner looks at;  *)
(*   inhand: the line scanned and not yet sent; opens: for each request    *)
(*   opened, the sinceTime it carried and lastSentTime at that moment;     *)
(*   delivered: the lines sent on the output, in order; droppedLines: the  *)
(*   lines given up after 10 s of a full channel; cstate: the container    *)
(*   is running, has stopped, or its pod is deleted; backoff: Start's      *)
(*   retry delay in seconds; openedOk: the last request opened; runErr:    *)
(*   what the last call of run returned; podSeen: what the last pod        *)
(*   lookup of isContainerRunning got.                                     *)
(***************************************************************************)
VARIABLES clog, sinceTime, lastSentTime, stpc, connSince, connPos, inhand,
          opens, delivered, droppedLines, cstate, backoff, openedOk, runErr,
          podSeen

streamVars ==
    <<clog, sinceTime, lastSentTime, stpc, connSince, connPos, inhand,
      opens, delivered, droppedLines, cstate, backoff, openedOk, runErr,
      podSeen>>

(***************************************************************************)
(* State of the collector side.                                            *)
(*   StreamManager: mstreams (the map key -> registered stream),           *)
(*   streamSem (slots held), mctx (m.ctx cancelled), sctx (each stream's   *)
(*   context cancelled), wg (m.wg), cpc (where each StartStream call and   *)
(*   the goroutine it launches stands), stopTarget (the managedStream a    *)
(*   StopStream call has looked up), sapc (where StopAll stands).          *)
(*   Output channel: output, outClosed; nlines counts the lines the        *)
(*   streams have read, sent the lines delivered on the channel, panicked  *)
(*   a send on the closed channel.                                         *)
(*   Batcher: bbuf, retryQueue, consecutiveFailures, circuitOpen,          *)
(*   circuitElapsed (now is after circuitOpenUntil), bpc (Run running or   *)
(*   returned); taken, attempted, written, dropped record the entries      *)
(*   received, passed to store.Write, written, and lost to overflow;       *)
(*   failBudget is how many more writes the store will fail.               *)
(*   Collector: cctx (c.ctx cancelled), mainpc (where Start/shutdown is).  *)
(***************************************************************************)
VARIABLES mstreams, streamSem, mctx, sctx, wg, cpc, stopTarget, sapc, keyOf,
          output, outClosed, nlines, sent, panicked,
          bbuf, retryQueue, consecutiveFailures, circuitOpen,
          circuitElapsed, bpc, taken, attempted, written, dropped,
          failBudget, cctx, mainpc,
          containerStates, podLife, podObj, emitted, toEmit, dpc, events,
          evDropped, evReceived, ncalls, evq, received

mgrVars ==
    <<mstreams, streamSem, mctx, sctx, wg, cpc, stopTarget, sapc, keyOf>>

chanVars == <<output, outClosed, nlines, sent, panicked>>

batVars ==
    <<bbuf, retryQueue, consecutiveFailures, circuitOpen, circuitElapsed,
      bpc, taken, attempted, written, dropped, failBudget>>

discVars ==
    <<containerStates, podLife, podObj, emitted, toEmit, dpc, events,
      evDropped, evReceived, ncalls>>

\* the collector's main loop: the pod events it has still to receive from
\* discovery.Events() and those it has received, in order
loopVars == <<evq, received>>

colVars == <<cctx, mainpc, discVars, loopVars>>

Keys == {"k1", "k2", "k3"}

\* the StartStream calls of a run
Calls == {"c1", "c2", "c3"}

\* ref.Key() of the calls: c1 and c2 are for the same container
KeyOf == [c \in Calls |-> IF c = "c3" THEN "k2" ELSE "k1"]

\* the calls are as in KeyOf, or for three different containers
KeyMaps == {KeyOf, [KeyOf EXCEPT !["c2"] = "k3"]}

(***************************************************************************)
(* StreamManager                                                           *)
(***************************************************************************)
MgrStart ==
    /\ mstreams = [k \in Keys |-> None]
    /\ streamSem = 0
    /\ mctx = FALSE
    /\ sctx = [c \in Calls |-> FALSE]
    /\ wg = 0
    /\ cpc = [c \in Calls |-> "idle"]
    /\ stopTarget = None
    /\ sapc = "idle"

MgrInit == MgrStart /\ keyOf = KeyOf

ChanInit ==
    /\ output = <<>>
    /\ outClosed = FALSE
    /\ nlines = 0
    /\ sent = {}
    /\ panicked = FALSE

SemFreeAlways(n) == TRUE

\* case m.streamSem <- struct{}{} can proceed
SemFree(n) == n < maxStreams

ReleaseSlotLeak(n) == n

\* <-m.streamSem
ReleaseSlot(n) == n - 1

\* StartStream: first check under the lock
StartCheckMgr(c) ==
    /\ cpc[c] = "idle"
    /\ cpc' = [cpc EXCEPT ![c] =
                 IF mstreams[keyOf[c]] # None THEN "returned" ELSE "acquire"]
    /\ UNCHANGED <<mstreams, streamSem, mctx, sctx, wg, stopTarget, sapc,
                   keyOf>>

StartCheck(c) ==
    /\ StartCheckMgr(c)
    /\ UNCHANGED <<chanVars, batVars, colVars, storeVars, streamVars>>

\* StartStream: select { case m.streamSem <- struct{}{}: case <-m.ctx.Done() }
Acquire(c) ==
    /\ cpc[c] = "acquire"
    /\ \/ /\ SemFree(streamSem)
          /\ streamSem' = streamSem + 1
          /\ cpc' = [cpc EXCEPT ![c] = "created"]
       \/ /\ mctx
          /\ cpc' = [cpc EXCEPT ![c] = "returned"]
          /\ UNCHANGED streamSem
    /\ UNCHANGED <<mstreams, mctx, sctx, wg, stopTarget, sapc, keyOf>>
    /\ UNCHANGED <<chanVars, batVars, colVars, storeVars, streamVars>>

RegisterUnchecked(c) ==
    /\ cpc[c] = "created"
    /\ mstreams' = [mstreams EXCEPT ![keyOf[c]] = c]
    /\ cpc' = [cpc EXCEPT ![c] = "registered"]
    /\ UNCHANGED <<streamSem, mctx, sctx, wg, stopTarget, sapc, keyOf>>
    /\ UNCHANGED <<chanVars, batVars, colVars, storeVars, streamVars>>

\* StartStream: double-check under the lock, then register
Register(c) ==
    /\ cpc[c] = "created"
    /\ IF mstreams[keyOf[c]] # None
       THEN /\ cpc' = [cpc EXCEPT ![c] = "dup"]
            /\ sctx' = [sctx EXCEPT ![c] = TRUE]
            /\ UNCHANGED mstreams
       ELSE /\ mstreams' = [mstreams EXCEPT ![keyOf[c]] = c]
            /\ cpc' = [cpc EXCEPT ![c] = "registered"]
            /\ UNCHANGED sctx
    /\ UNCHANGED <<streamSem, mctx, wg, stopTarget, sapc, keyOf>>
    /\ UNCHANGED <<chanVars, batVars, colVars, storeVars, streamVars>>

\* StartStream: the double-check found the key; release the slot, return
DupRelease(c) ==
    /\ cpc[c] = "dup"
    /\ streamSem' = ReleaseSlot(streamSem)
    /\ cpc' = [cpc EXCEPT ![c] = "returned"]
    /\ UNCHANGED <<mstreams, mctx, sctx, wg, stopTarget, sapc, keyOf>>
    /\ UNCHANGED <<chanVars, batVars, colVars, storeVars, streamVars>>

\* StartStream: m.wg.Add(1); go func() { ... stream.Start(streamCtx) }
Spawn(c) ==
    /\ cpc[c] = "registered"
    /\ wg' = wg + 1
    /\ cpc' = [cpc EXCEPT ![c] = "run"]
    /\ UNCHANGED <<mstreams, streamSem, mctx, sctx, stopTarget, sapc, keyOf>>
    /\ UNCHANGED <<chanVars, batVars, colVars, storeVars, streamVars>>

CtxDoneParentOnly(c) == mctx

\* the stream's context is done: its own cancel, or m.ctx, its parent
CtxDone(c) == sctx[c] \/ mctx

\* stream.Start -> run: req.Stream(ctx); a request under a done context
\* fails and Start returns ctx.Err()
StreamOpen(c) ==
    /\ cpc[c] = "run"
    /\ cpc' = [cpc EXCEPT ![c] = IF CtxDone(c) THEN "exited" ELSE "tail"]
    /\ UNCHANGED <<mstreams, streamSem, mctx, sctx, wg, stopTarget, sapc,
                   keyOf>>
    /\ UNCHANGED <<chanVars, batVars, colVars, storeVars, streamVars>>

\* Stream.run: a line was read; case s.output <- logLine.  A send on the
\* closed channel panics.  The select may take this case also when the
\* context is done.
StreamSend(c) ==
    /\ cpc[c] = "tail"
    /\ nlines < MaxLines
    /\ \/ /\ outClosed
          /\ panicked' = TRUE
          /\ UNCHANGED <<output, nlines, sent>>
       \/ /\ ~outClosed
          /\ Len(output) < ChanCap
          /\ output' = Append(output, nlines + 1)
          /\ sent' = sent \cup {nlines + 1}
          /\ nlines' = nlines + 1
          /\ UNCHANGED panicked
    /\ UNCHANGED outClosed
    /\ UNCHANGED <<mgrVars, batVars, colVars, storeVars, streamVars>>

\* Stream.run: the channel stayed full for 10 s; the line is dropped
StreamDrop(c) ==
    /\ cpc[c] = "tail"
    /\ nlines < MaxLines
    /\ ~outClosed
    /\ Len(output) >= ChanCap
    /\ nlines' = nlines + 1
    /\ UNCHANGED <<output, outClosed, sent, panicked>>
    /\ UNCHANGED <<mgrVars, batVars, colVars, storeVars, streamVars>>

\* stream.Start returned: the container terminated, a non-retryable error,
\* or the context was cancelled
StreamExit(c) ==
    /\ cpc[c] = "tail"
    /\ cpc' = [cpc EXCEPT ![c] = "exited"]
    /\ UNCHANGED <<mstreams, streamSem, mctx, sctx, wg, stopTarget, sapc,
                   keyOf>>
    /\ UNCHANGED <<chanVars, batVars, colVars, storeVars, streamVars>>

\* Stream.run / Start: case <-ctx.Done() of the select the stream stands at
\* (reading, sending or in backoff): return ctx.Err()
StreamCancelled(c) ==
    /\ cpc[c] = "tail"
    /\ CtxDone(c)
    /\ cpc' = [cpc EXCEPT ![c] = "exited"]
    /\ UNCHANGED <<mstreams, streamSem, mctx, sctx, wg, stopTarget, sapc,
                   keyOf>>
    /\ UNCHANGED <<chanVars, batVars, colVars, storeVars, streamVars>>

\* deferred: m.mu.Lock(); delete(m.streams, key); m.mu.Unlock()
Deregister(c) ==
    /\ cpc[c] = "exited"
    /\ mstreams' = [mstreams EXCEPT ![keyOf[c]] = None]
    /\ cpc' = [cpc EXCEPT ![c] = "deleted"]
    /\ UNCHANGED <<streamSem, mctx, sctx, wg, stopTarget, sapc, keyOf>>
    /\ UNCHANGED <<chanVars, batVars, colVars, storeVars, streamVars>>

\* deferred: <-m.streamSem
Release(c) ==
    /\ cpc[c] = "deleted"
    /\ streamSem' = ReleaseSlot(streamSem)
    /\ cpc' = [cpc EXCEPT ![c] = "released"]
    /\ UNCHANGED <<mstreams, mctx, sctx, wg, stopTarget, sapc, keyOf>>
    /\ UNCHANGED <<chanVars, batVars, colVars, storeVars, streamVars>>

\* deferred: m.wg.Done()
WgDone(c) ==
    /\ cpc[c] = "released"
    /\ wg' = wg - 1
    /\ cpc' = [cpc EXCEPT ![c] = "done"]
    /\ UNCHANGED <<mstreams, streamSem, mctx, sctx, stopTarget, sapc, keyOf>>
    /\ UNCHANGED <<chanVars, batVars, colVars, storeVars, streamVars>>

\* StopStream found no entry for its key
Absent == "absent"

\* StopStream: look the key up under the lock
StopLookupMgr(k) ==
    /\ stopTarget = None
    /\ stopTarget' = IF mstreams[k] # None THEN mstreams[k] ELSE Absent
    /\ UNCHANGED <<mstreams, streamSem, mctx, sctx, wg, cpc, sapc, keyOf>>

StopLookup(k) ==
    /\ StopLookupMgr(k)
    /\ UNCHANGED <<chanVars, batVars, colVars, storeVars, streamVars>>

\* StopStream: if exists { managed.cancel() }
StopCancel ==
    /\ stopTarget # None
    /\ sctx' = IF stopTarget \in Calls
               THEN [sctx EXCEPT ![stopTarget] = TRUE]
               ELSE sctx
    /\ stopTarget' = None
    /\ UNCHANGED <<mstreams, streamSem, mctx, wg, cpc, sapc, keyOf>>
    /\ UNCHANGED <<chanVars, batVars, colVars, storeVars, streamVars>>

\* StopAll: m.cancel()
SACancel ==
    /\ sapc = "idle"
    /\ mctx' = TRUE
    /\ sapc' = "wait"
    /\ UNCHANGED <<mstreams, streamSem, sctx, wg, cpc, stopTarget, keyOf>>
    /\ UNCHANGED <<chanVars, batVars, colVars, storeVars, streamVars>>

\* StopAll: m.wg.Wait() returns
SAWait ==
    /\ sapc = "wait"
    /\ wg = 0
    /\ sapc' = "close"
    /\ UNCHANGED <<mstreams, streamSem, mctx, sctx, wg, cpc, stopTarget,
                   keyOf>>
    /\ UNCHANGED <<chanVars, batVars, colVars, storeVars, streamVars>>

\* StopAll: close(m.output)
SAClose ==
    /\ sapc = "close"
    /\ outClosed' = TRUE
    /\ sapc' = "done"
    /\ UNCHANGED <<mstreams, streamSem, mctx, sctx, wg, cpc, stopTarget,
                   keyOf>>
    /\ UNCHANGED <<output, nlines, sent, panicked>>
    /\ UNCHANGED <<batVars, colVars, storeVars, streamVars>>

\* a reader of Output() receives a line
Recv ==
    /\ output # <<>>
    /\ output' = Tail(output)
    /\ UNCHANGED <<outClosed, nlines, sent, panicked>>
    /\ UNCHANGED <<mgrVars, batVars, colVars, storeVars, streamVars>>

(***************************************************************************)
(* Batcher.  The ticker periods (flush interval, retry backoff) are time   *)
(* and not state here: a tick may come whenever its case is ready.         *)
(***************************************************************************)
BatInit ==
    /\ bbuf = <<>>
    /\ retryQueue = <<>>
    /\ consecutiveFailures = 0
    /\ circuitOpen = FALSE
    /\ circuitElapsed = FALSE
    /\ bpc = "run"
    /\ taken = {}
    /\ attempted = {}
    /\ written = {}
    /\ dropped = {}

\* the fields the batcher's helpers read and write
BState ==
    [q |-> retryQueue, cf |-> consecutiveFailures, open |-> circuitOpen,
     el |-> circuitElapsed, at |-> attempted, wr |-> written,
     dr |-> dropped, fb |-> failBudget]

SetBState(s) ==
    /\ retryQueue' = s.q
    /\ consecutiveFailures' = s.cf
    /\ circuitOpen' = s.open
    /\ circuitElapsed' = s.el
    /\ attempted' = s.at
    /\ written' = s.wr
    /\ dropped' = s.dr
    /\ failBudget' = s.fb

isCircuitOpenEarly(s) ==
    IF s.open THEN [s EXCEPT !.open = FALSE, !.cf = 0] ELSE s

\* isCircuitOpen: closes the circuit once circuitOpenUntil has passed
isCircuitOpen(s) ==
    IF s.open /\ s.el THEN [s EXCEPT !.open = FALSE, !.cf = 0] ELSE s

recordFailureNoTrip(s) == [s EXCEPT !.cf = Min2(s.cf + 1, circuitThreshold)]

\* recordFailure (the counter is kept up to circuitThreshold: only
\* consecutiveFailures >= circuitThreshold is ever read)
recordFailure(s) ==
    LET n == Min2(s.cf + 1, circuitThreshold)
    IN  IF n >= circuitThreshold
        THEN [s EXCEPT !.cf = n, !.open = TRUE, !.el = FALSE]
        ELSE [s EXCEPT !.cf = n]

recordSuccess(s) == [s EXCEPT !.cf = 0]

addToRetryQueueUnbounded(s, batch) == [s EXCEPT !.q = Append(s.q, batch)]

addToRetryQueue(s, batch) ==
    IF Len(s.q) >= maxRetryQueue
    THEN [s EXCEPT !.q = Append(Tail(s.q), batch),
                   !.dr = s.dr \cup Range(s.q[1])]
    ELSE [s EXCEPT !.q = Append(s.q, batch)]

\* b.store.Write(ctx, batch) was called and returned ok or an error
storeWrite(s, batch, ok) ==
    [s EXCEPT !.at = s.at \cup Range(batch),
              !.wr = IF ok THEN s.wr \cup Range(batch) ELSE s.wr,
              !.fb = IF ~ok /\ s.fb > 0 THEN s.fb - 1 ELSE s.fb]

\* the results store.Write can have: the store fails while it is unhealthy,
\* and a write under a cancelled context may fail
WriteOutcomes(cancelled) ==
    {TRUE} \cup (IF failBudget > 0 \/ cancelled THEN {FALSE} ELSE {})

flushDropFailed(s0, batch, ok) ==
    LET s == isCircuitOpen(s0)
    IN  IF s.open THEN addToRetryQueue(s, batch)
        ELSE IF ok THEN recordSuccess(storeWrite(s, batch, ok))
        ELSE recordFailure(storeWrite(s, batch, ok))

\* Batcher.flush of a non-empty buffer, after the buffer was swapped
flush(s0, batch, ok) ==
    LET s == isCircuitOpen(s0)
    IN  IF s.open THEN addToRetryQueue(s, batch)
        ELSE IF ok THEN recordSuccess(storeWrite(s, batch, ok))
        ELSE addToRetryQueue(recordFailure(storeWrite(s, batch, ok)), batch)

\* Batcher.flush(ctx) on the buffer buf
DoFlush(buf, cancelled) ==
    /\ bbuf' = <<>>
    /\ IF buf = <<>>
       THEN UNCHANGED <<retryQueue, consecutiveFailures, circuitOpen,
                        circuitElapsed, attempted, written, dropped,
                        failBudget>>
       ELSE \E ok \in WriteOutcomes(cancelled) :
                SetBState(flush(BState, buf, ok))

\* processRetryQueue
processRetryQueue(s, ok) ==
    IF s.q = <<>> THEN s
    ELSE IF ok
         THEN recordSuccess([storeWrite(s, s.q[1], ok) EXCEPT !.q = Tail(s.q)])
         ELSE recordFailure(storeWrite(s, s.q[1], ok))

shouldFlushNever(buf) == FALSE

\* shouldFlush := len(b.buffer) >= b.batchSize
shouldFlush(buf) == Len(buf) >= batchSize

\* Run: case line, ok := <-b.input with ok: append, flush at batchSize
BRecv ==
    /\ bpc = "run"
    /\ output # <<>>
    /\ output' = Tail(output)
    /\ taken' = taken \cup {Head(output)}
    /\ LET buf == Append(bbuf, Head(output))
       IN  IF shouldFlush(buf)
           THEN DoFlush(buf, cctx)
           ELSE /\ bbuf' = buf
                /\ UNCHANGED <<retryQueue, consecutiveFailures, circuitOpen,
                               circuitElapsed, attempted, written, dropped,
                               failBudget>>
    /\ UNCHANGED bpc
    /\ UNCHANGED <<outClosed, nlines, sent, panicked>>
    /\ UNCHANGED <<mgrVars, colVars, storeVars, streamVars>>

\* Run: the input channel is closed and empty: return b.Flush(Background)
BClosed ==
    /\ bpc = "run"
    /\ output = <<>>
    /\ outClosed
    /\ DoFlush(bbuf, FALSE)
    /\ bpc' = "done"
    /\ UNCHANGED taken
    /\ UNCHANGED <<chanVars, mgrVars, colVars, storeVars, streamVars>>

\* Run: case <-ticker.C with a non-empty buffer that is due
BTick ==
    /\ bpc = "run"
    /\ bbuf # <<>>
    /\ DoFlush(bbuf, cctx)
    /\ UNCHANGED <<bpc, taken>>
    /\ UNCHANGED <<chanVars, mgrVars, colVars, storeVars, streamVars>>

\* Run: case <-retryTicker.C
BRetryTick ==
    /\ bpc = "run"
    /\ LET s == isCircuitOpen(BState)
       IN  IF s.open THEN SetBState(s)
           ELSE \E ok \in WriteOutcomes(cctx) :
                    SetBState(processRetryQueue(s, ok))
    /\ UNCHANGED <<bbuf, bpc, taken>>
    /\ UNCHANGED <<chanVars, mgrVars, colVars, storeVars, streamVars>>

BCtxDoneNoFlush ==
    /\ bpc = "run"
    /\ cctx
    /\ bpc' = "done"
    /\ UNCHANGED <<bbuf, retryQueue, consecutiveFailures, circuitOpen,
                   circuitElapsed, attempted, written, dropped, failBudget>>
    /\ UNCHANGED taken
    /\ UNCHANGED <<chanVars, mgrVars, colVars, storeVars, streamVars>>

\* Run: case <-ctx.Done(): flush under a fresh 5 s context, return
BCtxDone ==
    /\ bpc = "run"
    /\ cctx
    /\ DoFlush(bbuf, FALSE)
    /\ bpc' = "done"
    /\ UNCHANGED taken
    /\ UNCHANGED <<chanVars, mgrVars, colVars, storeVars, streamVars>>

\* 30 s have passed since the circuit opened
TimePasses ==
    /\ circuitOpen
    /\ ~circuitElapsed
    /\ circuitElapsed' = TRUE
    /\ UNCHANGED <<bbuf, retryQueue, consecutiveFailures, circuitOpen, bpc,
                   taken, attempted, written, dropped, failBudget>>
    /\ UNCHANGED <<chanVars, mgrVars, colVars, storeVars, streamVars>>

\* a stream puts a line on the batcher's input
Produce ==
    /\ ~outClosed
    /\ nlines < MaxLines
    /\ Len(output) < ChanCap
    /\ output' = Append(output, nlines + 1)
    /\ sent' = sent \cup {nlines + 1}
    /\ nlines' = nlines + 1
    /\ UNCHANGED <<outClosed, panicked>>
    /\ UNCHANGED <<mgrVars, batVars, colVars, storeVars, streamVars>>

\* the owner of the input channel closes it
CloseInput ==
    /\ ~outClosed
    /\ outClosed' = TRUE
    /\ UNCHANGED <<output, nlines, sent, panicked>>
    /\ UNCHANGED <<mgrVars, batVars, colVars, storeVars, streamVars>>

(***************************************************************************)
(* PodDiscovery: the informer's handlers for one pod, its state map and    *)
(* its event channel.  ContainerRef.Key() differs between the containers   *)
(* of a pod only in the container name, so the map is indexed by it.  The  *)
(* restartCount field is stored and never read.  The informer hands the    *)
(* handlers the successive objects of the pod; the container statuses of a *)
(* later object list at least the containers of an earlier one.            *)
(***************************************************************************)
\* handler calls of a run
MaxCalls == 2

\* capacity of d.events (1000 in the source)
EventsCap == 1

DContainers == {"a", "b"}

\* the order of pod.Status.ContainerStatuses
StatusOrder == <<"a", "b">>

ContainerIDs == {1, 2}

\* corev1.ContainerStatus: State.Running != nil, ContainerID
ContainerStatus == [running : BOOLEAN, containerID : ContainerIDs]

\* pod.Status.ContainerStatuses, by container name
PodObjs == UNION {[L -> ContainerStatus] : L \in SUBSET DContainers}

\* no entry under the key
NoState == [exists |-> FALSE, running |-> FALSE, containerID |-> 0]

containerState(r, id) == [exists |-> TRUE, running |-> r, containerID |-> id]

ContainerStarted == "STARTED"

ContainerStopped == "STOPPED"

PodEvent(t, c) == [type |-> t, container |-> c]

DiscInit ==
    /\ containerStates = [c \in DContainers |-> NoState]
    /\ podLife = "none"
    /\ podObj = << >>
    /\ emitted = <<>>
    /\ toEmit = <<>>
    /\ dpc = "idle"
    /\ events = <<>>
    /\ evDropped = {}
    /\ evReceived = <<>>
    /\ ncalls = 0

\* processContainerStatuses: the first branch is taken whatever the entry's
\* containerID when the entry is absent or not running
isStartAnyID(prev, cs) == cs.running /\ (~prev.exists \/ ~prev.running)

\* processContainerStatuses: the first branch
isStart(prev, cs) ==
    cs.running /\ (~prev.exists \/ ~prev.running
                   \/ cs.containerID # prev.containerID)

\* processContainerStatuses: the second branch
isStop(prev, cs) == ~cs.running /\ prev.exists /\ prev.running

\* processContainerStatuses without the store of an initial non-running state
nextStateNoInitial(prev, cs) ==
    IF isStart(prev, cs) \/ isStop(prev, cs)
    THEN containerState(cs.running, cs.containerID)
    ELSE prev

\* processContainerStatuses: d.containerStates[key] after one status
nextState(prev, cs) ==
    IF isStart(prev, cs) \/ isStop(prev, cs)
    THEN containerState(cs.running, cs.containerID)
    ELSE IF ~prev.exists /\ ~cs.running
         THEN containerState(FALSE, cs.containerID)
         ELSE prev

\* the events processContainerStatuses passes to emitEvent, in status order
RECURSIVE statusEvents(_, _, _)
statusEvents(states, obj, i) ==
    IF i > Len(StatusOrder) THEN <<>>
    ELSE LET c == StatusOrder[i]
             rest == statusEvents(states, obj, i + 1)
         IN  IF c \notin DOMAIN obj THEN rest
             ELSE IF isStart(states[c], obj[c])
                  THEN <<PodEvent(ContainerStarted, c)>> \o rest
                  ELSE IF isStop(states[c], obj[c])
                       THEN <<PodEvent(ContainerStopped, c)>> \o rest
                       ELSE rest

\* the events onPodDelete passes to emitEvent, in status order
RECURSIVE deleteEvents(_, _)
deleteEvents(obj, i) ==
    IF i > Len(StatusOrder) THEN <<>>
    ELSE LET c == StatusOrder[i]
             rest == deleteEvents(obj, i + 1)
         IN  IF c \in DOMAIN obj
             THEN <<PodEvent(ContainerStopped, c)>> \o rest
             ELSE rest

\* the handler's emitEvent calls, numbered in the order they are made
emitAll(evs) ==
    /\ emitted' = emitted \o evs
    /\ toEmit' = [i \in 1..Len(evs) |-> Len(emitted) + i]

HandlerFree == toEmit = <<>> /\ dpc = "idle" /\ ncalls < MaxCalls

processContainerStatuses(obj) ==
    /\ containerStates' =
         [c \in DContainers |->
            IF c \in DOMAIN obj THEN nextState(containerStates[c], obj[c])
            ELSE containerStates[c]]
    /\ emitAll(statusEvents(containerStates, obj, 1))
    /\ podObj' = obj
    /\ podLife' = "present"
    /\ ncalls' = ncalls + 1
    /\ UNCHANGED <<dpc, events, evDropped, evReceived, cctx, mainpc, loopVars>>
    /\ UNCHANGED <<storeVars, mgrVars, chanVars, batVars, streamVars>>

onPodAdd ==
    /\ HandlerFree
    /\ podLife = "none"
    /\ \E obj \in PodObjs : processContainerStatuses(obj)

\* also the periodic resync, which hands over the object unchanged
onPodUpdate ==
    /\ HandlerFree
    /\ podLife = "present"
    /\ \E obj \in PodObjs :
         /\ DOMAIN podObj \subseteq DOMAIN obj
         /\ processContainerStatuses(obj)

\* the object is the pod's last state, also inside a tombstone
onPodDelete ==
    /\ HandlerFree
    /\ podLife = "present"
    /\ containerStates' =
         [c \in DContainers |->
            IF c \in DOMAIN podObj THEN NoState ELSE containerStates[c]]
    /\ emitAll(deleteEvents(podObj, 1))
    /\ podLife' = "deleted"
    /\ ncalls' = ncalls + 1
    /\ UNCHANGED <<podObj, dpc, events, evDropped, evReceived, cctx, mainpc, loopVars>>
    /\ UNCHANGED <<storeVars, mgrVars, chanVars, batVars, streamVars>>

DiscOther ==
    /\ UNCHANGED <<containerStates, podLife, podObj, emitted, ncalls>>
    /\ UNCHANGED <<cctx, mainpc, loopVars>>
    /\ UNCHANGED <<storeVars, mgrVars, chanVars, batVars, streamVars>>

\* emitEvent: the first select sends
EmitNow ==
    /\ dpc = "idle"
    /\ toEmit # <<>>
    /\ Len(events) < EventsCap
    /\ events' = Append(events, Head(toEmit))
    /\ toEmit' = Tail(toEmit)
    /\ UNCHANGED <<dpc, evDropped, evReceived>>
    /\ DiscOther

\* emitEvent: the first select takes its default
EmitFull ==
    /\ dpc = "idle"
    /\ toEmit # <<>>
    /\ Len(events) >= EventsCap
    /\ dpc' = "wait"
    /\ UNCHANGED <<toEmit, events, evDropped, evReceived>>
    /\ DiscOther

\* emitEvent: the second select sends
EmitSend ==
    /\ dpc = "wait"
    /\ Len(events) < EventsCap
    /\ events' = Append(events, Head(toEmit))
    /\ toEmit' = Tail(toEmit)
    /\ dpc' = "idle"
    /\ UNCHANGED <<evDropped, evReceived>>
    /\ DiscOther

\* emitEvent: case <-d.ctx.Done()
EmitCtxDone ==
    /\ dpc = "wait"
    /\ cctx
    /\ evDropped' = evDropped \cup {Head(toEmit)}
    /\ toEmit' = Tail(toEmit)
    /\ dpc' = "idle"
    /\ UNCHANGED <<events, evReceived>>
    /\ DiscOther

\* a timeout after which emitEvent is called again with the same event
EmitTimeoutRetry ==
    /\ dpc = "wait"
    /\ evDropped' = evDropped \cup {Head(toEmit)}
    /\ dpc' = "idle"
    /\ UNCHANGED <<toEmit, events, evReceived>>
    /\ DiscOther

\* emitEvent: case <-time.After(5 * time.Second)
EmitTimeout ==
    /\ dpc = "wait"
    /\ evDropped' = evDropped \cup {Head(toEmit)}
    /\ toEmit' = Tail(toEmit)
    /\ dpc' = "idle"
    /\ UNCHANGED <<events, evReceived>>
    /\ DiscOther

\* Collector.Start: case event := <-c.discovery.Events()
EventRecv ==
    /\ mainpc = "loop"
    /\ events # <<>>
    /\ evReceived' = Append(evReceived, Head(events))
    /\ events' = Tail(events)
    /\ UNCHANGED <<toEmit, dpc, evDropped>>
    /\ DiscOther

\* the context handed to PodDiscovery.Start is cancelled
DiscCancel ==
    /\ ~cctx
    /\ cctx' = TRUE
    /\ UNCHANGED <<mainpc, discVars, loopVars>>
    /\ UNCHANGED <<storeVars, mgrVars, chanVars, batVars, streamVars>>

DiscoveryNext ==
    \/ onPodAdd
    \/ onPodUpdate
    \/ onPodDelete
    \/ EmitNow
    \/ EmitFull
    \/ EmitSend
    \/ EmitCtxDone
    \/ EmitTimeout
    \/ EventRecv
    \/ DiscCancel

(***************************************************************************)
(* Collector: Start's main loop and shutdown.                              *)
(***************************************************************************)
\* no pod event is under way to the main loop
LoopIdle ==
    /\ evq = <<>>
    /\ received = <<>>

ColStart ==
    /\ cctx = FALSE
    /\ mainpc = "loop"
    /\ DiscInit

ColInit == ColStart /\ LoopIdle

\* the main loop is between two pod events
MainFree ==
    /\ \A c \in Calls : cpc[c] \notin {"acquire", "created", "registered", "dup"}
    /\ stopTarget = None

\* handlePodEvent(ContainerStarted): c.streamManager.StartStream
CStartStream(c) ==
    /\ mainpc = "loop"
    /\ MainFree
    /\ StartCheck(c)

\* handlePodEvent(ContainerStopped): c.streamManager.StopStream
CStopStream(k) ==
    /\ mainpc = "loop"
    /\ MainFree
    /\ StopLookup(k)

(***************************************************************************)
(* The main loop fed by a given sequence of pod events: Collector.Start    *)
(* receives one event, handlePodEvent works it off, and only then does the *)
(* loop receive the next.                                                  *)
(***************************************************************************)
\* the most events of a run
MaxEvents == 4

\* keys STOPPED events are for
StopKeys == {"k1", "k2"}

\* a STARTED event leads to the StartStream call ref, a STOPPED event to
\* StopStream for the key ref
LoopEvents ==
    [type : {"STARTED"}, ref : Calls] \cup [type : {"STOPPED"}, ref : StopKeys]

CallOrder == [c \in Calls |-> IF c = "c1" THEN 1 ELSE IF c = "c2" THEN 2 ELSE 3]

\* the event sequences followed: the calls are made in the order c1, c2, c3
LoopScripts ==
    {q \in UNION {[1..n -> LoopEvents] : n \in 0..MaxEvents} :
        \A j \in 1..Len(q) :
            q[j].type = "STARTED" =>
               Cardinality({i \in 1..(j - 1) : q[i].type = "STARTED"})
                  = CallOrder[q[j].ref] - 1}

\* case event := <-c.discovery.Events() with a ContainerStarted event:
\* handlePodEvent calls StartStream
LoopStart(c) ==
    /\ MainFree
    /\ evq # <<>>
    /\ Head(evq) = [type |-> "STARTED", ref |-> c]
    /\ StartCheckMgr(c)
    /\ evq' = Tail(evq)
    /\ received' = Append(received, Head(evq))
    /\ UNCHANGED <<cctx, mainpc, discVars>>
    /\ UNCHANGED <<chanVars, batVars, storeVars, streamVars>>

\* the same with a ContainerStopped event: handlePodEvent calls StopStream
LoopStop(k) ==
    /\ MainFree
    /\ evq # <<>>
    /\ Head(evq) = [type |-> "STOPPED", ref |-> k]
    /\ StopLookupMgr(k)
    /\ evq' = Tail(evq)
    /\ received' = Append(received, Head(evq))
    /\ UNCHANGED <<cctx, mainpc, discVars>>
    /\ UNCHANGED <<chanVars, batVars, storeVars, streamVars>>

\* c.ctx is cancelled (Stop, or the parent context); m.ctx is its child
Cancel ==
    /\ ~cctx
    /\ cctx' = TRUE
    /\ mctx' = TRUE
    /\ UNCHANGED <<mainpc, discVars, loopVars>>
    /\ UNCHANGED <<mstreams, streamSem, sctx, wg, cpc, stopTarget, sapc,
                   keyOf>>
    /\ UNCHANGED <<chanVars, batVars, storeVars, streamVars>>

\* Start: case <-c.ctx.Done(): return c.shutdown()
CShutdown ==
    /\ mainpc = "loop"
    /\ cctx
    /\ MainFree
    /\ mainpc' = "stopall"
    /\ UNCHANGED <<cctx, discVars, loopVars>>
    /\ UNCHANGED <<mgrVars, chanVars, batVars, storeVars, streamVars>>

\* shutdown: c.streamManager.StopAll()
CStopAllCancel == mainpc = "stopall" /\ SACancel

CStopAllWait == mainpc = "stopall" /\ SAWait

CStopAllClose == mainpc = "stopall" /\ SAClose

\* shutdown: StopAll returned; c.wg.Wait() completes (the batcher returned)
CWaitDone ==
    /\ mainpc = "stopall"
    /\ sapc = "done"
    /\ bpc = "done"
    /\ mainpc' = "flush"
    /\ UNCHANGED <<cctx, discVars, loopVars>>
    /\ UNCHANGED <<mgrVars, chanVars, batVars, storeVars, streamVars>>

\* shutdown: StopAll returned; time.After(ShutdownTimeout) fires first
CWaitTimeout ==
    /\ mainpc = "stopall"
    /\ sapc = "done"
    /\ bpc # "done"
    /\ mainpc' = "flushLate"
    /\ UNCHANGED <<cctx, discVars, loopVars>>
    /\ UNCHANGED <<mgrVars, chanVars, batVars, storeVars, streamVars>>

\* shutdown: c.batcher.Flush(context.Background()), return
CFinalFlush ==
    /\ mainpc \in {"flush", "flushLate"}
    /\ DoFlush(bbuf, FALSE)
    /\ mainpc' = IF mainpc = "flush" THEN "done" ELSE "doneLate"
    /\ UNCHANGED <<bpc, taken, cctx, discVars, loopVars>>
    /\ UNCHANGED <<mgrVars, chanVars, storeVars, streamVars>>

(***************************************************************************)
(* processRetryQueue step by step: the head of the queue is read under     *)
(* retryMu, written with the lock released, and the head is cut off under  *)
(* the lock again.                                                         *)
(***************************************************************************)
\* Run is not inside processRetryQueue
RunFree == rbatch = <<>>

\* Run: case <-retryTicker.C; isCircuitOpen; processRetryQueue reads
\* batch := b.retryQueue[0] and unlocks
RetryTake ==
    /\ bpc = "run"
    /\ RunFree
    /\ LET s == isCircuitOpen(BState)
       IN  /\ SetBState(s)
           /\ rbatch' = IF s.open \/ s.q = <<>> THEN <<>> ELSE s.q[1]
    /\ UNCHANGED <<bbuf, bpc, taken>>
    /\ UNCHANGED <<chanVars, mgrVars, colVars, streamVars>>
    /\ UNCHANGED <<buffer, rows, writeMu, spc, sop, sbatch, page1, page2,
                   committed, ignored, requeued, txn, qsnap, ordVars, closed,
                   dbClosed, cbatch, lastClosed, dcutoff, lastDeleted,
                   retVars, getVars, migVars>>

\* processRetryQueue: b.store.Write(ctx, batch) returned; on success
\* b.retryQueue = b.retryQueue[1:] and recordSuccess, else recordFailure
RetryFinish ==
    /\ bpc = "run"
    /\ ~RunFree
    /\ \E ok \in WriteOutcomes(cctx) :
          LET s == storeWrite(BState, rbatch, ok)
          IN  SetBState(IF ok THEN recordSuccess([s EXCEPT !.q = Tail(s.q)])
                              ELSE recordFailure(s))
    /\ rbatch' = <<>>
    /\ UNCHANGED <<bbuf, bpc, taken>>
    /\ UNCHANGED <<chanVars, mgrVars, colVars, streamVars>>
    /\ UNCHANGED <<buffer, rows, writeMu, spc, sop, sbatch, page1, page2,
                   committed, ignored, requeued, txn, qsnap, ordVars, closed,
                   dbClosed, cbatch, lastClosed, dcutoff, lastDeleted,
                   retVars, getVars, migVars>>

(***************************************************************************)
(* Stream: Start's retry loop and run, for one container.  The API server  *)
(* serves, in order, the lines whose timestamp is not before the request's *)
(* sinceTime (all lines when it is the zero time).                         *)
(***************************************************************************)
\* s.ref.PodUID, and the UID of a later pod of the same name
PodUID == "u1"

OtherUID == "u2"

Pod(uid, running) == [failed |-> FALSE, uid |-> uid, running |-> running]

\* no lookup was made yet
NoPod == [failed |-> FALSE, uid |-> "", running |-> FALSE]

PodError == [failed |-> TRUE, uid |-> OtherUID, running |-> FALSE]

StreamInit ==
    /\ clog = <<>>
    /\ sinceTime \in {0, MaxTs}
    /\ lastSentTime = 0
    /\ stpc = "start"
    /\ connSince = 0
    /\ connPos = 0
    /\ inhand = 0
    /\ opens = <<>>
    /\ delivered = <<>>
    /\ droppedLines = {}
    /\ cstate = "running"
    /\ backoff = 1
    /\ openedOk = FALSE
    /\ runErr = "none"
    /\ podSeen = NoPod

StreamIdle ==
    /\ clog = <<>>
    /\ sinceTime = 0
    /\ lastSentTime = 0
    /\ stpc = "ended"
    /\ connSince = 0
    /\ connPos = 0
    /\ inhand = 0
    /\ opens = <<>>
    /\ delivered = <<>>
    /\ droppedLines = {}
    /\ cstate = "running"
    /\ backoff = 1
    /\ openedOk = FALSE
    /\ runErr = "none"
    /\ podSeen = NoPod

\* s.lastSentTime.Add(time.Nanosecond)
NextSinceSame(t) == t

NextSince(t) == t + 1

\* a server that takes no notice of the request's sinceTime
ServedFromStart == connPos..Len(clog)

\* the lines the open connection has still to serve
Served == {i \in connPos..Len(clog) : clog[i] >= connSince}

\* if logLine.Timestamp.After(s.lastSentTime) { s.lastSentTime = ... }
Advance(t) == IF t > lastSentTime THEN t ELSE lastSentTime

DropKeepsCursor(t) == lastSentTime

\* the cursor after a line with timestamp t was dropped
DropAdvance(t) == Advance(t)

\* maxBackoff := 30 * time.Second
maxBackoff == 30

isRetryableNever(e) == FALSE

\* isRetryable, on the kind of the error
isRetryable(e) == e \notin {"canceled", "deadline", "eof"}

\* Start, after err := s.run(ctx) under a live context: return on nil and
\* on an error that is not retryable, else wait the backoff
AfterRun(e) ==
    IF e = "none" THEN "ended"
    ELSE IF isRetryable(e) THEN "backoff" ELSE "ended"

\* the environment interrupts a stream (transient open error, idle
\* connection, dropped connection) only while this holds
MayInterrupt == Len(opens) < MaxOpens

\* the container logs a line; timestamps do not go back
Emit ==
    /\ cstate = "running"
    /\ Len(clog) < MaxLog
    /\ \E t \in 1..MaxTs :
        /\ clog # <<>> => t >= clog[Len(clog)]
        /\ clog' = Append(clog, t)
    /\ UNCHANGED <<sinceTime, lastSentTime, stpc, connSince, connPos, inhand,
                   opens, delivered, droppedLines, cstate, backoff, openedOk,
                   runErr, podSeen>>

\* the container terminates; its pod stays
ContainerStops ==
    /\ cstate = "running"
    /\ cstate' = "stopped"
    /\ UNCHANGED <<clog, sinceTime, lastSentTime, stpc, connSince, connPos,
                   inhand, opens, delivered, droppedLines, backoff, openedOk,
                   runErr, podSeen>>

\* the pod is deleted
PodDeleted ==
    /\ cstate \in {"running", "stopped"}
    /\ cstate' = "deleted"
    /\ UNCHANGED <<clog, sinceTime, lastSentTime, stpc, connSince, connPos,
                   inhand, opens, delivered, droppedLines, backoff, openedOk,
                   runErr, podSeen>>

\* Start: top of the loop: update sinceTime from the cursor
StartLoop ==
    /\ stpc = "start"
    /\ sinceTime' = IF lastSentTime # 0 THEN NextSince(lastSentTime)
                    ELSE sinceTime
    /\ stpc' = "open"
    /\ UNCHANGED <<clog, lastSentTime, connSince, connPos, inhand, opens,
                   delivered, droppedLines, cstate, backoff, openedOk,
                   runErr, podSeen>>

\* the errors req.Stream can return: not found for a deleted pod, else a
\* transient one
OpenErrors ==
    IF cstate = "deleted" THEN {"notfound"}
    ELSE IF MayInterrupt THEN {"reset"} ELSE {}

\* run: build the request with opts.SinceTime and open it; Start retries an
\* error to open after the backoff when isRetryable says so
RunOpen ==
    /\ stpc = "open"
    /\ opens' = IF Len(opens) < MaxOpens
                THEN Append(opens, [since |-> sinceTime, last |-> lastSentTime])
                ELSE opens
    /\ \/ /\ cstate # "deleted"
          /\ connSince' = sinceTime
          /\ connPos' = 1
          /\ stpc' = "tail"
          /\ openedOk' = TRUE
          /\ UNCHANGED runErr
       \/ /\ \E e \in OpenErrors :
                /\ runErr' = e
                /\ stpc' = AfterRun(e)
          /\ openedOk' = FALSE
          /\ UNCHANGED <<connSince, connPos>>
    /\ UNCHANGED <<clog, sinceTime, lastSentTime, inhand, delivered,
                   droppedLines, cstate, backoff, podSeen>>

\* run: case result := <-scanCh with a line
ScanLine ==
    /\ stpc = "tail"
    /\ Served # {}
    /\ LET i == CHOOSE j \in Served : \A k \in Served : j <= k
       IN  /\ inhand' = i
           /\ connPos' = i + 1
    /\ stpc' = "line"
    /\ UNCHANGED <<clog, sinceTime, lastSentTime, connSince, opens,
                   delivered, droppedLines, cstate, backoff, openedOk,
                   runErr, podSeen>>

\* run: case s.output <- logLine
SendLine ==
    /\ stpc = "line"
    /\ delivered' = Append(delivered, inhand)
    /\ lastSentTime' = Advance(clog[inhand])
    /\ inhand' = 0
    /\ stpc' = "tail"
    /\ UNCHANGED <<clog, sinceTime, connSince, connPos, opens, droppedLines,
                   cstate, backoff, openedOk,
                   runErr, podSeen>>

\* run: case <-time.After(10 * time.Second): drop, still move the cursor,
\* go on with the next scan
DropLine ==
    /\ stpc = "line"
    /\ droppedLines' = droppedLines \cup {inhand}
    /\ lastSentTime' = DropAdvance(clog[inhand])
    /\ inhand' = 0
    /\ stpc' = "tail"
    /\ UNCHANGED <<clog, sinceTime, connSince, connPos, opens, delivered,
                   cstate, backoff, openedOk,
                   runErr, podSeen>>

\* run: case <-time.After(s.idleTimeout), or the scanner failed: a
\* retryable error
IdleTimeout ==
    /\ stpc = "tail"
    /\ MayInterrupt
    /\ \E e \in {"idle", "read"} :
        /\ runErr' = e
        /\ stpc' = AfterRun(e)
    /\ UNCHANGED <<clog, sinceTime, lastSentTime, connSince, connPos, inhand,
                   opens, delivered, droppedLines, cstate, backoff, openedOk,
                   podSeen>>

\* what Pods(ns).Get(ctx, name) can return: an error when the pod is gone or
\* the API server cannot be reached, else the pod of that name, which after
\* a deletion is another pod
PodLookups ==
    {PodError} \cup
    (IF cstate = "deleted"
     THEN {Pod(OtherUID, TRUE), Pod(OtherUID, FALSE)}
     ELSE {Pod(PodUID, cstate = "running")})

isContainerRunningAnyPod(p) == ~p.failed /\ p.running

\* isContainerRunning, on the answer of the pod lookup
isContainerRunning(p) == ~p.failed /\ p.uid = PodUID /\ p.running


\* run: the scanner finished without error (end of the log, or the
\* connection was closed); isContainerRunning decides between
\* errStreamClosedUnexpectedly and a normal end
StreamClosed ==
    /\ stpc = "tail"
    /\ cstate = "running" => MayInterrupt
    /\ \E p \in PodLookups :
        /\ podSeen' = p
        /\ runErr' = IF isContainerRunning(p) THEN "closed" ELSE "none"
        /\ stpc' = AfterRun(runErr')
    /\ UNCHANGED <<clog, sinceTime, lastSentTime, connSince, connPos, inhand,
                   opens, delivered, droppedLines, cstate, backoff, openedOk>>

\* Start: case <-time.After(backoff): backoff = min(backoff*2, maxBackoff)
Backoff ==
    /\ stpc = "backoff"
    /\ stpc' = "start"
    /\ backoff' = Min2(backoff * 2, maxBackoff)
    /\ UNCHANGED <<clog, sinceTime, lastSentTime, connSince, connPos, inhand,
                   opens, delivered, droppedLines, cstate, openedOk,
                   runErr, podSeen>>

\* case <-ctx.Done() in run or in Start
Cancelled ==
    /\ stpc \in {"tail", "line", "backoff"}
    /\ stpc' = "ended"
    /\ inhand' = 0
    /\ runErr' = "canceled"
    /\ UNCHANGED <<clog, sinceTime, lastSentTime, connSince, connPos, opens,
                   delivered, droppedLines, cstate, backoff, openedOk,
                   podSeen>>

otherVars == <<mgrVars, chanVars, batVars, colVars, streamVars>>

vars == <<storeVars, mgrVars, chanVars, batVars, colVars, streamVars>>

Init ==
    /\ StoreInit
    /\ MgrInit
    /\ ChanInit
    /\ BatInit
    /\ ColInit
    /\ StreamIdle
    /\ failBudget = 0

\* writers and flushers running concurrently
Next ==
    /\ \E p \in Procs :
        \/ Write(p)
        \/ FlushCall(p)
        \/ FlushSwap(p)
        \/ FlushLock(p)
        \/ FlushExec(p)
        \/ FlushFail(p)
        \/ FlushCommit(p)
    /\ UNCHANGED otherVars

Spec == Init /\ [][Next]_vars

\* writers and flushers running concurrently, the order of Write calls
\* recorded
OrderNext ==
    /\ \E p \in Procs :
        \/ WriteTracked(p)
        \/ FlushCall(p)
        \/ FlushSwap(p)
        \/ FlushLock(p)
        \/ FlushExec(p)
        \/ FlushFail(p)
        \/ FlushCommit(p)
    /\ UNCHANGED otherVars

SpecOrder == Init /\ [][OrderNext]_vars

\* one client that writes, flushes and pages through query results
Client == "g1"

QueryNext ==
    /\ \/ Write(Client)
       \/ FlushCall(Client)
       \/ QueryCall(Client)
       \/ FlushSwap(Client)
       \/ FlushLock(Client)
       \/ FlushExec(Client)
       \/ FlushFail(Client)
       \/ FlushCommit(Client)
       \/ QueryFirst(Client)
       \/ QueryAfter(Client)
    /\ UNCHANGED otherVars

SpecQuery == Init /\ [][QueryNext]_vars

\* a client that writes and queries while another goroutine writes and
\* flushes
Flusher == "g2"

\* storage.Query{}: no filter, default limit
ConcQueries == {MkQuery(<<>>, SeverityUnknown, 0, 0, 0, 0, OrderDesc, 0)}

QueryAll(p) == QueryRead(p, ConcQueries)

ConcNext ==
    /\ \/ Write(Client)
       \/ \E p \in Procs :
            \/ FlushSwap(p)
            \/ FlushLock(p)
            \/ FlushExec(p)
            \/ FlushFail(p)
            \/ FlushCommit(p)
       \/ FlushCall(Flusher)
       \/ QueryCall(Client)
       \/ QueryAll(Client)
    /\ UNCHANGED otherVars

SpecConc == Init /\ [][ConcNext]_vars

\* SpecConc's goroutines, writing pairwise distinct entries
CountNext ==
    /\ \/ WriteFresh(Client)
       \/ \E p \in Procs :
            \/ FlushSwap(p)
            \/ FlushLock(p)
            \/ FlushExec(p)
            \/ FlushFail(p)
            \/ FlushCommit(p)
       \/ FlushCall(Flusher)
       \/ QueryCall(Client)
       \/ QueryAll(Client)
    /\ UNCHANGED otherVars

SpecCount == Init /\ [][CountNext]_vars

\* a store that is written, flushed, cleared of old rows and closed
CloseNext ==
    /\ \E p \in Procs :
        \/ WriteOpen(p)
        \/ CallClosed(p)
        \/ FlushCallOpen(p)
        \/ FlushSwapOpen(p)
        \/ FlushSwapClosed(p)
        \/ FlushLock(p)
        \/ FlushExecOpen(p)
        \/ FlushCommitOpen(p)
        \/ FlushOnClosedDB(p)
        \/ DeleteCall(p)
        \/ DeleteExec(p)
        \/ CloseCall(p)
        \/ CloseLock(p)
        \/ CloseFlush(p)
        \/ CloseAgain(p)
    /\ UNCHANGED otherVars

SpecClose == Init /\ [][CloseNext]_vars

\* a client writing pairwise distinct entries and flushing, and retention
\* deleting beside it
DeleteNext ==
    /\ \/ WriteFresh(Client)
       \/ FlushCall(Client)
       \/ \E p \in Procs :
            \/ FlushSwap(p)
            \/ FlushLock(p)
            \/ FlushExec(p)
            \/ FlushFail(p)
            \/ FlushCommit(p)
       \/ DeleteCall(Flusher)
       \/ DeleteExec(Flusher)
    /\ UNCHANGED otherVars

SpecDelete == Init /\ [][DeleteNext]_vars

\* every variable the retention worker leaves alone
storeOwn ==
    <<buffer, rows, writeMu, spc, sop, sbatch, page1, page2, committed,
      ignored, requeued, txn, qsnap, ordVars, closed, dbClosed, cbatch,
      lastClosed, dcutoff, lastDeleted>>

retRest == <<storeOwn, getVars, migVars, retryVars, otherVars>>

\* every variable a remote GetByID leaves alone
getRest == <<storeOwn, retVars, migVars, retryVars, otherVars>>

\* every variable opening a database leaves alone
migRest == <<storeOwn, retVars, getVars, retryVars, otherVars>>

RetStart == RStart /\ UNCHANGED retRest

RetTick == RTick /\ UNCHANGED retRest

RetCtxDone == RCtxDone /\ UNCHANGED retRest

RetentionNext ==
    \/ RConfigure /\ UNCHANGED retRest
    \/ RLog /\ UNCHANGED retRest
    \/ RetStart
    \/ RetTick
    \/ RetCtxDone
    \/ RCancel /\ UNCHANGED retRest

SpecRetention == Init /\ [][RetentionNext]_vars

\* the goroutine running Run is scheduled and the ticker keeps firing
RetentionFairness ==
    /\ WF_vars(RetStart)
    /\ WF_vars(RetTick)
    /\ WF_vars(RetCtxDone)

SpecRetentionFair == SpecRetention /\ RetentionFairness

GetNext ==
    \/ /\ \/ WriteOpen(Client)
          \/ FlushCallOpen(Client)
          \/ FlushSwapOpen(Client)
          \/ FlushLock(Client)
          \/ FlushExecOpen(Client)
          \/ FlushCommitOpen(Client)
          \/ DeleteCall(Client)
          \/ DeleteExec(Client)
          \/ CloseCall(Client)
          \/ CloseLock(Client)
          \/ CloseFlush(Client)
       /\ UNCHANGED otherVars
    \/ GetCall /\ UNCHANGED getRest
    \/ GetUnavailable /\ UNCHANGED getRest
    \/ GetServe /\ UNCHANGED getRest
    \/ GetReturn /\ UNCHANGED getRest

SpecGet == Init /\ [][GetNext]_vars

MigNext ==
    \/ MigOpen /\ UNCHANGED migRest
    \/ MigCheck /\ UNCHANGED migRest
    \/ MigBackfill /\ UNCHANGED migRest
    \/ MigDedup /\ UNCHANGED migRest
    \/ MigIndex /\ UNCHANGED migRest

SpecMigrate == Init /\ [][MigNext]_vars

\* the stream manager under concurrent callers; a panic ends the program
MgrNext ==
    /\ ~panicked
    /\ \/ \E c \in Calls :
            \/ StartCheck(c)
            \/ Acquire(c)
            \/ Register(c)
            \/ DupRelease(c)
            \/ Spawn(c)
            \/ StreamOpen(c)
            \/ StreamSend(c)
            \/ StreamDrop(c)
            \/ StreamExit(c)
            \/ StreamCancelled(c)
            \/ Deregister(c)
            \/ Release(c)
            \/ WgDone(c)
       \/ \E k \in Keys : StopLookup(k)
       \/ StopCancel
       \/ SACancel
       \/ SAWait
       \/ SAClose
       \/ Recv

MgrSpecInit ==
    /\ StoreInit
    /\ MgrStart
    /\ keyOf \in KeyMaps
    /\ ChanInit
    /\ BatInit
    /\ ColInit
    /\ StreamIdle
    /\ failBudget = 0

SpecMgr == MgrSpecInit /\ [][MgrNext]_vars

\* the steps a stream's goroutine takes by itself: the launch, the open,
\* the return on a done context, and the deferred clean-up
StreamProgress(c) ==
    /\ ~panicked
    /\ \/ Spawn(c)
       \/ StreamOpen(c)
       \/ StreamCancelled(c)
       \/ Deregister(c)
       \/ Release(c)
       \/ WgDone(c)

\* every goroutine is scheduled, and a select with a done context takes
\* that case in the end
MgrFairness == \A c \in Calls : WF_vars(StreamProgress(c))

\* the manager under StartStream and StopStream callers while it is not
\* shut down
StopNext ==
    \/ \E c \in Calls :
         \/ StartCheck(c)
         \/ Acquire(c)
         \/ Register(c)
         \/ DupRelease(c)
         \/ Spawn(c)
         \/ StreamOpen(c)
         \/ StreamSend(c)
         \/ StreamDrop(c)
         \/ StreamExit(c)
         \/ StreamCancelled(c)
         \/ Deregister(c)
         \/ Release(c)
         \/ WgDone(c)
    \/ \E k \in Keys : StopLookup(k)
    \/ StopCancel
    \/ Recv

SpecStop == Init /\ [][StopNext]_vars /\ MgrFairness

LoopInit ==
    /\ StoreInit
    /\ MgrStart
    /\ keyOf \in KeyMaps
    /\ ChanInit
    /\ BatInit
    /\ ColStart
    /\ evq \in LoopScripts
    /\ received = <<>>
    /\ StreamIdle
    /\ failBudget = 0

\* the main loop and StartStream / StopStream called from it
LoopStep ==
    \/ \E c \in Calls :
         \/ LoopStart(c)
         \/ Acquire(c)
         \/ Register(c)
    \/ \E k \in Keys : LoopStop(k)
    \/ StopCancel

LoopNext ==
    \/ LoopStep
    \/ \E c \in Calls :
         \/ Spawn(c)
         \/ StreamOpen(c)
         \/ StreamExit(c)
         \/ StreamCancelled(c)
         \/ Deregister(c)
         \/ Release(c)
         \/ WgDone(c)

SpecLoop == LoopInit /\ [][LoopNext]_vars

\* the main loop and every stream goroutine keep being scheduled; a
\* container logs for as long as it likes (StreamExit is not forced)
SpecLoopFair == SpecLoop /\ WF_vars(LoopStep) /\ MgrFairness

\* the batcher alone, fed by a producer, against a store that fails up to
\* MaxFailures writes
BatcherInit ==
    /\ StoreInit
    /\ MgrInit
    /\ ChanInit
    /\ BatInit
    /\ ColInit
    /\ StreamIdle
    /\ failBudget = MaxFailures

CancelBatcher ==
    /\ ~cctx
    /\ cctx' = TRUE
    /\ UNCHANGED <<mainpc, discVars, loopVars>>
    /\ UNCHANGED <<mgrVars, chanVars, batVars, storeVars, streamVars>>

BatcherNext ==
    \/ Produce
    \/ CloseInput
    \/ CancelBatcher
    \/ BRecv
    \/ BClosed
    \/ BTick
    \/ BRetryTick
    \/ BCtxDone
    \/ TimePasses

SpecBatcher == BatcherInit /\ [][BatcherNext]_vars

\* the tickers keep firing, time passes, and a cancelled or closed Run
\* takes its exit
BatcherFairness ==
    /\ WF_vars(BRecv)
    /\ WF_vars(BTick)
    /\ WF_vars(BRetryTick)
    /\ WF_vars(TimePasses)
    /\ WF_vars(BCtxDone)
    /\ WF_vars(BClosed)

SpecBatcherFair == SpecBatcher /\ BatcherFairness

\* the batcher with the collector shutting down around it
RetryNext ==
    \/ Produce
    \/ Cancel
    \/ CShutdown
    \/ CStopAllCancel
    \/ CStopAllWait
    \/ CStopAllClose
    \/ CWaitDone
    \/ CWaitTimeout
    \/ CFinalFlush
    \/ RunFree /\ BRecv
    \/ RunFree /\ BClosed
    \/ RunFree /\ BTick
    \/ RunFree /\ BCtxDone
    \/ RetryTake
    \/ RetryFinish
    \/ TimePasses

SpecRetry == BatcherInit /\ [][RetryNext]_vars

\* the collector: main loop, streams, batcher and shutdown
CollectorInit ==
    /\ StoreInit
    /\ MgrInit
    /\ ChanInit
    /\ BatInit
    /\ ColInit
    /\ StreamIdle
    /\ failBudget = 1

CollectorNext ==
    /\ ~panicked
    /\ \/ \E c \in Calls :
            \/ CStartStream(c)
            \/ Acquire(c)
            \/ Register(c)
            \/ Spawn(c)
            \/ StreamOpen(c)
            \/ StreamSend(c)
            \/ StreamDrop(c)
            \/ StreamExit(c)
            \/ Deregister(c)
            \/ Release(c)
            \/ WgDone(c)
       \/ \E k \in Keys : CStopStream(k)
       \/ StopCancel
       \/ Cancel
       \/ CShutdown
       \/ CStopAllCancel
       \/ CStopAllWait
       \/ CStopAllClose
       \/ CWaitDone
       \/ CWaitTimeout
       \/ CFinalFlush
       \/ BRecv
       \/ BClosed
       \/ BTick
       \/ BRetryTick
       \/ BCtxDone

SpecCollector == CollectorInit /\ [][CollectorNext]_vars

\* one stream following its container
StreamSpecInit ==
    /\ StoreInit
    /\ MgrInit
    /\ ChanInit
    /\ BatInit
    /\ ColInit
    /\ StreamInit
    /\ failBudget = 0

StreamNext ==
    /\ \/ Emit
       \/ ContainerStops
       \/ PodDeleted
       \/ StartLoop
       \/ RunOpen
       \/ ScanLine
       \/ SendLine
       \/ DropLine
       \/ IdleTimeout
       \/ StreamClosed
       \/ Backoff
       \/ Cancelled
    /\ UNCHANGED <<storeVars, mgrVars, chanVars, batVars, colVars>>

SpecStream == StreamSpecInit /\ [][StreamNext]_vars

\* the stream's own steps are taken when they stay possible; a line in hand
\* is sent or, after 10 s, dropped
StreamFairness ==
    /\ WF_streamVars(StartLoop)
    /\ WF_streamVars(RunOpen)
    /\ WF_streamVars(ScanLine)
    /\ WF_streamVars(SendLine \/ DropLine)
    /\ WF_streamVars(StreamClosed)
    /\ WF_streamVars(Backoff)

SpecStreamFair == SpecStream /\ StreamFairness

(***************************************************************************)
(* Pod discovery                                                           *)
(***************************************************************************)
DiscoveryInit ==
    /\ StoreInit
    /\ MgrInit
    /\ ChanInit
    /\ BatInit
    /\ ColInit
    /\ StreamIdle
    /\ failBudget = MaxFailures

SpecDiscovery == DiscoveryInit /\ [][DiscoveryNext]_vars

\* the 5 s timer of a waiting emitEvent fires
DiscoveryFairness == WF_vars(EmitTimeout)

SpecDiscoveryFair == SpecDiscovery /\ DiscoveryFairness

\* besides, the main loop keeps receiving and emitEvent sends when it can
DeliveryFairness ==
    /\ WF_vars(EmitTimeout)
    /\ WF_vars(EmitNow)
    /\ WF_vars(EmitSend)
    /\ WF_vars(EventRecv)

SpecDiscoveryLive == SpecDiscovery /\ DeliveryFairness

(***************************************************************************)
(* Claims about the store.                                                 *)
(***************************************************************************)
RowsWithTuple(t) == {i \in 1..Len(rows) : DedupTuple(rows[i].e) = t}

\* C1: however often an entry with the same dedup tuple was written and
\* flushed (also again after a failed or ambiguous attempt), the table holds
\* exactly one row for that tuple: the row count is the number of distinct
\* tuples committed.
C1_DedupIdempotent ==
    /\ \A t \in committed : Cardinality(RowsWithTuple(t)) = 1
    /\ Len(rows) = Cardinality(committed)

\* a commit found an entry whose tuple was already persisted and left it out
C1_Witness ==
    /\ ignored
    /\ Len(rows) >= 2
    /\ \A p \in Procs : spc[p] = "idle"

\* the entries a correct second page holds: the first limit matching rows
\* that lie beyond the last entry of the page before, in the query's order
ExpectedNext(pg) ==
    LET q0 == [pg.q EXCEPT !.afterId = 0]
        rs == Take(rows, pg.seen)
        sel == Ids(SelectSeq(rs, LAMBDA r : Matches(r, q0)))
        ord == IF q0.order = OrderAsc THEN sel ELSE Reverse(sel)
        last == pg.prev.entries[Len(pg.prev.entries)]
        rest == SelectSeq(ord, LAMBDA id :
                    IF q0.order = OrderAsc THEN id > last ELSE id < last)
    IN  Take(rest, EffLimit(q0))

\* C2: a query that returned hasMore and nextCursor c, repeated with
\* afterId = c, returns exactly the next limit matching entries in the same
\* order: nothing of the first page again, nothing in between skipped.
C2_NextPageFollows ==
    page2 # NoPage => page2.res.entries = ExpectedNext(page2)

\* C10: a flush that leaves its transaction step without having persisted
\* its whole batch has put the batch back at the head of the buffer, ahead
\* of what was appended in the meantime, and no step makes an accepted
\* entry vanish from buffer, batches in flight and table together.
C10_FailedFlushRequeues ==
    [][/\ \A p \in Procs :
            (spc[p] = "tx" /\ spc'[p] # "tx") =>
                \/ Tuples(sbatch[p]) \subseteq RowTuples(rows')
                \/ buffer' = sbatch[p] \o buffer
       /\ (Tuples(Pending) \cup RowTuples(rows))
              \subseteq (Tuples(Pending') \cup RowTuples(rows'))]_vars

\* a failed flush has re-queued its batch ahead of entries appended while
\* it was running, and the buffer now holds both
C10_Witness ==
    /\ requeued
    /\ Len(buffer) >= 2
    /\ \A p \in Procs : spc[p] = "idle"

(***************************************************************************)
(* Stream manager                                                          *)
(***************************************************************************)
Registered == {k \in Keys : mstreams[k] # None}

\* the calls whose stream goroutine exists and has not returned
Goroutines ==
    {c \in Calls : cpc[c] \in {"run", "tail", "exited", "deleted", "released"}}

Running == {c \in Calls : cpc[c] \in {"run", "tail"}}

\* C3: at every moment the number of streams registered in the manager,
\* and the number of them running, is at most MaxConcurrentStreams
C3_StreamsBounded ==
    /\ Cardinality(Registered) <= maxStreams
    /\ Cardinality(Running) <= maxStreams

\* every slot is in use by a running stream while another StartStream call
\* waits for one
C3_Witness ==
    /\ Cardinality(Running) = maxStreams
    /\ \E c \in Calls : cpc[c] = "acquire"

\* StartStream calls between slot acquisition and registration
Acquiring == {c \in Calls : cpc[c] \in {"created", "dup"}}

\* C4 as stated: at every moment the held slots are the registered streams
\* plus the StartStream calls between acquisition and registration
C4_SlotsAsStated ==
    streamSem = Cardinality(Registered) + Cardinality(Acquiring)

\* ended streams that have removed their key and not yet released the slot
Releasing == {c \in Calls : cpc[c] = "deleted"}

\* C4: at every moment the held slots are the registered streams, the
\* StartStream calls between acquisition and registration, and the ended
\* streams between the removal of their key and the release of their slot;
\* a stream that has ended and released holds no key and no slot
C4_SlotAccounting ==
    /\ streamSem = Cardinality(Registered) + Cardinality(Acquiring)
                     + Cardinality(Releasing)
    /\ \A c \in Calls :
         cpc[c] \in {"released", "done"} => mstreams[keyOf[c]] # c

\* one stream has ended and released its slot, another has removed its key
\* and still holds its slot
C4_Witness ==
    /\ \E c \in Calls : cpc[c] = "done"
    /\ \E c \in Calls : cpc[c] = "deleted"

\* C9: once StopAll has closed the output channel no stream goroutine is
\* left, and no stream has sent on the closed channel
C9_CloseAfterStreamsExit ==
    /\ outClosed => Goroutines = {}
    /\ ~panicked

(***************************************************************************)
(* Collector shutdown                                                      *)
(***************************************************************************)
\* C8: when the collector's shutdown has completed within ShutdownTimeout,
\* every line a stream sent on the output channel has been consumed by the
\* batcher and passed to a store write
C8_ShutdownDrains ==
    mainpc = "done" => /\ sent \subseteq taken
                       /\ sent \subseteq attempted

(***************************************************************************)
(* Batcher                                                                 *)
(***************************************************************************)
Lines == 1..MaxLines

\* C7 as stated: once the store accepts writes again and Run has returned,
\* every entry taken from the input has been written or was dropped by
\* retry-queue overflow
C7_AllWrittenAsStated ==
    (bpc = "done" /\ failBudget = 0) => taken \subseteq (written \cup dropped)

\* C7: while Run has not returned, every entry taken from the input is
\* eventually written to the store or dropped by retry-queue overflow; the
\* entries still queued when Run returns are given up
C7_EventuallyWritten ==
    \A id \in Lines :
        (id \in taken) ~> (id \in written \/ id \in dropped \/ bpc = "done")

\* an entry went through a failed write and the retry queue, and was written
C7_Witness ==
    /\ failBudget < MaxFailures
    /\ bpc = "run"
    /\ retryQueue = <<>>
    /\ bbuf = <<>>
    /\ taken # {}
    /\ taken \subseteq written

(***************************************************************************)
(* Stream reconnects                                                       *)
(***************************************************************************)
NoDuplicates ==
    \A i, j \in 1..Len(delivered) : i # j => delivered[i] # delivered[j]

\* C5 as stated: every re-opened request carries lastSentTime + 1 ns, and
\* no line is delivered twice
C5_SinceAsStated ==
    /\ \A i \in 2..Len(opens) : opens[i].since = opens[i].last + 1
    /\ NoDuplicates

\* C5: every re-opened request carries lastSentTime + 1 ns once
\* lastSentTime is set, and the sinceTime of the first request while it is
\* still the zero time; no line is delivered twice
C5_SinceFromCursor ==
    /\ \A i \in 2..Len(opens) :
         opens[i].since = IF opens[i].last # 0 THEN opens[i].last + 1
                          ELSE opens[1].since
    /\ NoDuplicates

\* the stream re-opened after it had delivered a line, and has delivered a
\* later line on the new connection
C5_Witness ==
    /\ Len(opens) >= 2
    /\ opens[Len(opens)].last # 0
    /\ lastSentTime > opens[Len(opens)].last
    /\ Len(delivered) >= 2

\* C6: the lines that a re-opened request will not serve again (those not
\* after lastSentTime) have all been delivered, or dropped by the 10 s rule
C6_NoGaps ==
    (stpc \in {"start", "backoff"} /\ opens # <<>>) =>
        \A i \in 1..Len(clog) :
            (clog[i] >= opens[1].since /\ clog[i] <= lastSentTime) =>
                \/ \E j \in 1..Len(delivered) : delivered[j] = i
                \/ i \in droppedLines

(***************************************************************************)
(* Flush atomicity and visibility                                          *)
(***************************************************************************)
\* C11: the rows of the table, which are what queries read, change only by
\* the commit of a whole batch: after the step every entry of the batch is
\* in the table (inserted, or ignored as a duplicate of a row), and a flush
\* that fails leaves the table as it was
C11_FlushAtomic ==
    [][rows' # rows =>
         \E p \in Procs :
            /\ spc[p] = "tx"
            /\ txn = Len(sbatch[p])
            /\ rows' = InsertBatch(rows, sbatch[p])
            /\ Tuples(sbatch[p]) \subseteq RowTuples(rows')]_vars

\* a transaction has executed some of its batch's inserts, not all, and the
\* first of them is not in the table that queries read
C11_Witness ==
    /\ rows # <<>>
    /\ \E p \in Procs :
        /\ spc[p] = "tx"
        /\ txn >= 1
        /\ txn < Len(sbatch[p])
        /\ DedupTuple(sbatch[p][1]) \notin RowTuples(rows)

\* the dedup tuples of the entries a query result returns
ResultTuples(res) ==
    {DedupTuple(r.e) : r \in {x \in Range(rows) : x.id \in Range(res.entries)}}

\* C12: when a Query reads the table, every entry of a Write call that had
\* returned before the Query was invoked is in the table, and in the result
\* when the query has no filter and does not cut the result short
C12_QuerySeesWrites ==
    [][(spc[Client] = "read" /\ spc'[Client] = "idle") =>
          /\ qsnap \subseteq RowTuples(rows)
          /\ (page1' # NoPage /\ page1'.q \in ConcQueries) =>
                qsnap \subseteq ResultTuples(page1'.res)]_vars

(***************************************************************************)
(* Stream retries                                                          *)
(***************************************************************************)
\* C13: once the container has stopped or its pod is deleted, the stream
\* eventually ends
C13_EndsAfterContainerGone == (cstate # "running") ~> (stpc = "ended")

\* C14: the retry that follows a connection that opened successfully waits
\* 1 s; every wait doubles the delay up to the 30 s cap
C14_BackoffResets ==
    [][(stpc = "backoff" /\ stpc' = "start") =>
          /\ openedOk => backoff = 1
          /\ backoff' = Min2(2 * backoff, 30)]_vars

\* C20: the step that drops a line moves lastSentTime to at least the
\* line's timestamp and goes on with the next scan; a dropped line is never
\* read again by a later request and never delivered
C20_DropAdvancesCursor ==
    [][/\ droppedLines' # droppedLines =>
            /\ stpc = "line"
            /\ droppedLines' = droppedLines \cup {inhand}
            /\ lastSentTime' >= clog[inhand]
            /\ stpc' = "tail"
       /\ \A i \in droppedLines' :
            /\ inhand' # i
            /\ \A j \in 1..Len(delivered') : delivered'[j] # i]_vars

\* a line was dropped, the stream has re-opened with a sinceTime after the
\* dropped line's timestamp, and has delivered a line
C20_Witness ==
    /\ stpc = "tail"
    /\ Len(opens) >= 2
    /\ delivered # <<>>
    /\ \E i \in droppedLines : connSince > clog[i]

\* a step of Run that flushes a non-empty buffer, and the batch it flushes
FlushStep == bbuf' = <<>> /\ (bbuf # <<>> \/ taken' # taken)

FlushedBatch == IF taken' # taken THEN Append(bbuf, Head(output)) ELSE bbuf

\* the circuit is open and its 30 s have not passed
CircuitHolds == circuitOpen /\ ~circuitElapsed

\* C15: the circuit opens with the failure that brings the count of
\* consecutive failed writes to circuitThreshold, and is open whenever the
\* count stands there; while it is open and its 30 s have not passed no step
\* calls store.Write, and a flush puts its batch at the tail of the retry
\* queue
C15_CircuitOpens ==
    [][/\ (consecutiveFailures' >= circuitThreshold) => circuitOpen'
       /\ (~circuitOpen /\ circuitOpen') =>
            /\ consecutiveFailures' = circuitThreshold
            /\ failBudget' < failBudget \/ cctx
            /\ CircuitHolds'
       /\ CircuitHolds =>
            /\ attempted' = attempted
            /\ written' = written
            /\ failBudget' = failBudget
            /\ FlushStep =>
                 /\ retryQueue' # <<>>
                 /\ retryQueue'[Len(retryQueue')] = FlushedBatch]_vars

\* the circuit is open and the retry queue ends with a batch that no write
\* was attempted for
C15_Witness ==
    /\ CircuitHolds
    /\ consecutiveFailures = circuitThreshold
    /\ retryQueue # <<>>
    /\ Range(retryQueue[Len(retryQueue)]) \cap attempted = {}

\* C16: an open circuit closes only once its 30 s have passed, and then with
\* the first flush of a batch or retry tick, which goes on to the store (a
\* flush writes its batch); a successful write leaves the count of
\* consecutive failures at zero
C16_CircuitCloses ==
    [][/\ (circuitOpen /\ ~circuitOpen') => circuitElapsed
       /\ (circuitOpen /\ circuitElapsed /\ (FlushStep \/ BRetryTick)) =>
            /\ ~circuitOpen'
            /\ FlushStep => Range(FlushedBatch) \subseteq attempted'
            /\ (~FlushStep /\ retryQueue # <<>>) =>
                 \/ retryQueue' = Tail(retryQueue)
                 \/ consecutiveFailures' = 1
       /\ written' # written => consecutiveFailures' = 0]_vars

\* the circuit was open, has closed after its 30 s, and a write has
\* succeeded
C16_Witness ==
    /\ ~circuitOpen
    /\ circuitElapsed
    /\ consecutiveFailures = 0
    /\ failBudget = 0
    /\ written # {}

Live(k) ==
    {c \in Calls : keyOf[c] = k /\ cpc[c] \in {"registered", "run", "tail", "exited"}}

\* C18: a StartStream that finds its key registered returns and changes
\* nothing; a key has at most one live stream, the registered one; a start
\* that finds the key at the double-check gives its slot back and returns
C18_OneStreamPerRef ==
    [][/\ \A c \in Calls :
            /\ (cpc[c] = "idle" /\ cpc'[c] # "idle"
                  /\ mstreams[keyOf[c]] # None) =>
                 /\ cpc'[c] = "returned"
                 /\ UNCHANGED <<mstreams, streamSem, sctx, wg>>
            /\ (cpc[c] = "created" /\ cpc'[c] # "created"
                  /\ mstreams[keyOf[c]] # None) =>
                 /\ cpc'[c] = "dup"
                 /\ UNCHANGED <<mstreams, streamSem, wg>>
            /\ (cpc[c] = "dup" /\ cpc'[c] # "dup") =>
                 /\ cpc'[c] = "returned"
                 /\ streamSem' = streamSem - 1
                 /\ UNCHANGED <<mstreams, wg>>
       /\ \A k \in Keys :
            /\ Cardinality(Live(k)') <= 1
            /\ Live(k)' \subseteq {mstreams'[k]}]_vars

\* a start lost the race at the double-check while the winner's stream runs
C18_Witness ==
    \E c, w \in Calls :
        /\ c # w
        /\ keyOf[c] = keyOf[w]
        /\ cpc[c] = "dup"
        /\ mstreams[keyOf[c]] = w
        /\ cpc[w] \in {"run", "tail"}

\* the calls that hold a slot of streamSem
SlotHolders ==
    {c \in Calls : cpc[c] \in {"created", "dup", "registered", "run", "tail",
                               "exited", "deleted"}}

\* C19: a registered stream whose cancel was called comes to its end with
\* its entry deleted and its slot given back; the return of a StopStream
\* that found no entry changes nothing
C19_StopStreamEnds ==
    /\ \A c \in Calls :
         (sctx[c] /\ cpc[c] \in {"registered", "run", "tail"})
            ~> (/\ cpc[c] = "done"
                /\ mstreams[keyOf[c]] # c
                /\ streamSem = Cardinality(SlotHolders))
    /\ [][(stopTarget = Absent /\ stopTarget' # Absent) =>
            UNCHANGED <<mstreams, streamSem, mctx, sctx, wg, cpc, sapc,
                        output, outClosed>>]_vars

\* a stream that StopStream cancelled while it was tailing has ended; its
\* key is free and no slot is held
C19_Witness ==
    /\ ~mctx
    /\ sctx["c1"]
    /\ cpc["c1"] = "done"
    /\ mstreams["k1"] = None
    /\ streamSem = 0
    /\ sent # {}

(***************************************************************************)
(* Stream: idle reconnect, end of log, order                               *)
(***************************************************************************)
\* C21: a run that returned the idle-timeout error does not end the stream:
\* Start waits the backoff and comes to open the next request, unless the
\* context is cancelled first
C21_IdleReconnects ==
    /\ [][(stpc = "tail" /\ stpc' \in {"backoff", "ended"}
              /\ runErr' = "idle") => stpc' = "backoff"]_vars
    /\ (stpc = "backoff" /\ runErr = "idle")
          ~> (stpc = "open" \/ runErr = "canceled")

\* the stream has re-opened after an idle timeout and delivered a line on
\* the new connection
C21_Witness ==
    /\ runErr = "idle"
    /\ stpc = "tail"
    /\ Len(opens) >= 2
    /\ delivered # <<>>
    /\ lastSentTime > opens[Len(opens)].last

\* C22: when the scanner ends without error, run returns
\* errStreamClosedUnexpectedly, and Start retries, exactly when the pod
\* lookup succeeded with the stream's pod UID and the container Running;
\* otherwise run returns nil and the stream ends
C22_CleanEndDecides ==
    [][(stpc = "tail" /\ stpc' \in {"backoff", "ended"}
          /\ runErr' \in {"closed", "none"}) =>
         IF ~podSeen'.failed /\ podSeen'.uid = PodUID /\ podSeen'.running
         THEN stpc' = "backoff" /\ runErr' = "closed"
         ELSE stpc' = "ended" /\ runErr' = "none"]_vars

\* the log of a deleted pod ended, the lookup found a running pod of the
\* same name with another UID, and the stream has ended without error
C22_Witness ==
    /\ stpc = "ended"
    /\ runErr = "none"
    /\ ~podSeen.failed
    /\ podSeen.uid # PodUID
    /\ podSeen.running

C24_BufferFlushed ==
    /\ [](Len(bbuf) < batchSize)
    /\ \A l \in Lines : (l \in Range(bbuf)) ~> (l \notin Range(bbuf))

\* an append brought the buffer to BatchSize and the whole batch was flushed
\* at once (the write failed and the batch waits in the retry queue)
C24_Witness ==
    /\ bpc = "run"
    /\ bbuf = <<>>
    /\ retryQueue # <<>>
    /\ Len(retryQueue[Len(retryQueue)]) = batchSize

\* C25 as stated: when Run returns on a cancelled context it has passed its
\* whole buffer to the store
C25_FinalFlushAsStated ==
    [][(bpc = "run" /\ bpc' = "done" /\ cctx) =>
         /\ bbuf' = <<>>
         /\ Range(bbuf) \subseteq attempted']_vars

\* C25: when Run returns on a cancelled context it has emptied its buffer
\* by one flush: with the circuit closed the batch was passed to the store,
\* and is written or, on failure, left in the retry queue; with the circuit
\* open no write was made and the batch was put in the retry queue
C25_FinalFlush ==
    [][(bpc = "run" /\ bpc' = "done" /\ cctx) =>
         /\ bbuf' = <<>>
         /\ IF CircuitHolds
            THEN /\ attempted' = attempted
                 /\ written' = written
                 /\ bbuf # <<>> => retryQueue'[Len(retryQueue')] = bbuf
            ELSE /\ Range(bbuf) \subseteq attempted'
                 /\ \/ Range(bbuf) \subseteq written'
                    \/ /\ retryQueue' # <<>>
                       /\ retryQueue'[Len(retryQueue')] = bbuf]_vars

\* Run has returned on a cancelled context with its input still open, and
\* everything it took from the input is in the store
C25_Witness ==
    /\ bpc = "done"
    /\ cctx
    /\ ~outClosed
    /\ bbuf = <<>>
    /\ retryQueue = <<>>
    /\ taken # {}
    /\ written = taken

\* C26: on a pod Add or Update, discovery emits STARTED for a container
\* exactly when it is running and was untracked, tracked as not running, or
\* tracked under another containerID; STOPPED exactly when it is not running
\* and was tracked as running; and nothing when the object is the one the
\* previous call processed.
C26_StatusEvents ==
    [][(podLife' = "present" /\ ncalls' = ncalls + 1) =>
         LET started ==
                 {c \in DOMAIN podObj' :
                    /\ podObj'[c].running
                    /\ \/ ~containerStates[c].exists
                       \/ ~containerStates[c].running
                       \/ containerStates[c].containerID # podObj'[c].containerID}
             stopped ==
                 {c \in DOMAIN podObj' :
                    /\ ~podObj'[c].running
                    /\ containerStates[c].exists
                    /\ containerStates[c].running}
             now == {emitted'[i] : i \in Range(toEmit')}
         IN  /\ now = {[type |-> "STARTED", container |-> c] : c \in started}
                       \cup {[type |-> "STOPPED", container |-> c] : c \in stopped}
             /\ Len(toEmit') = Cardinality(started) + Cardinality(stopped)
             /\ (podLife = "present" /\ podObj' = podObj) => toEmit' = <<>>]_vars

\* a container was started twice with no stop between: its containerID changed
C26_Witness ==
    /\ podLife = "present"
    /\ \E i, j \in 1..Len(emitted) :
         /\ i < j
         /\ emitted[i].type = "STARTED"
         /\ emitted[j] = emitted[i]
         /\ \A k \in i..j : emitted[k].container = emitted[i].container
                               => emitted[k].type = "STARTED"
    /\ \E c \in DContainers : containerStates[c].exists /\ ~containerStates[c].running

\* C27: on a pod Delete, discovery emits STOPPED once for every container of
\* the pod that has an entry in the state map and for no other, and no entry
\* of the pod is left.
C27_DeleteEvents ==
    [][(podLife = "present" /\ podLife' = "deleted") =>
         LET registered == {c \in DContainers : containerStates[c].exists}
             now == {emitted'[i] : i \in Range(toEmit')}
         IN  /\ now = {[type |-> "STOPPED", container |-> c] : c \in registered}
             /\ Len(toEmit') = Cardinality(registered)
             /\ \A c \in DContainers : ~containerStates'[c].exists]_vars

\* the deleted pod had a container that ran and one that never did
C27_Witness ==
    /\ podLife = "deleted"
    /\ \A c \in DContainers :
         \E i \in 1..Len(emitted) :
            emitted[i] = [type |-> "STOPPED", container |-> c]
    /\ \E c \in DContainers :
         \A i \in 1..Len(emitted) :
            emitted[i] # [type |-> "STARTED", container |-> c]
    /\ \E i \in 1..Len(emitted) : emitted[i].type = "STARTED"

\* C28: emitEvent enqueues the event at once when the channel has room;
\* otherwise it waits, and the wait ends: with the event enqueued, or on the
\* 5 s timeout or the context's end with the event dropped; a dropped event
\* is never in the channel or received afterwards.
C28_EmitBounded ==
    /\ [][(dpc = "idle" /\ toEmit # <<>> /\ Len(events) < EventsCap
             /\ (toEmit' # toEmit \/ dpc' # dpc)) =>
            (events' = Append(events, Head(toEmit)) /\ dpc' = "idle")]_vars
    /\ [][(dpc = "wait" /\ dpc' = "idle") =>
            /\ toEmit' = Tail(toEmit)
            /\ \/ events' = Append(events, Head(toEmit)) /\ evDropped' = evDropped
               \/ events' = events /\ evDropped' = evDropped \cup {Head(toEmit)}]_vars
    /\ [](\A i \in evDropped :
            i \notin Range(events) /\ i \notin Range(evReceived) /\ i \notin Range(toEmit))
    /\ (dpc = "wait") ~> (dpc = "idle")

\* an event was dropped on a full channel and a later one was received
C28_Witness ==
    \E i \in evDropped : \E j \in Range(evReceived) : j > i

\* the id of the row that holds the dedup tuple
RowId(t) == (CHOOSE i \in 1..Len(rows) : DedupTuple(rows[i].e) = t)

\* C29: of two persisted entries of which the first's Write returned before
\* the second's began, the first has the smaller id.
C29_IdsInWriteOrder ==
    \A pr \in wbefore :
        (pr[1] \in RowTuples(rows) /\ pr[2] \in RowTuples(rows))
            => rows[RowId(pr[1])].id < rows[RowId(pr[2])].id

C37_ClosePersists ==
    (dbClosed /\ lastDeleted.n = 0) => wdone \subseteq RowTuples(rows)

\* a Delete statement is executed
DeleteStep(p) == spc[p] = "delete" /\ spc'[p] = "idle"

\* C33 as stated: Delete leaves no entry older than the cutoff among those
\* handed to Write before, in the table or in a buffer, keeps all others, and
\* returns the number of rows removed.
C33_DeleteAsStated ==
    [][\A p \in Procs : DeleteStep(p) =>
         /\ \A t \in wall :
               t[1] < dcutoff =>
                   t \notin RowTuples(rows') \cup Tuples(Pending')
         /\ \A i \in 1..Len(rows) :
               rows[i].e.ts >= dcutoff => rows[i] \in Range(rows')
         /\ lastDeleted'.n = Len(rows) - Len(rows')]_vars

\* C33: Delete removes from the table exactly the rows older than the
\* cutoff, while no flush is inside its transaction, leaves the buffer and
\* the batches of flushes alone, and returns the number of rows removed.
C33_DeleteRows ==
    [][\A p \in Procs : DeleteStep(p) =>
         /\ \A i \in 1..Len(rows) :
               rows[i] \in Range(rows') <=> rows[i].e.ts >= dcutoff
         /\ Range(rows') \subseteq Range(rows)
         /\ lastDeleted'.n = Len(rows) - Len(rows')
         /\ lastDeleted'.err = None
         /\ \A q \in Procs : spc[q] # "tx"
         /\ UNCHANGED <<buffer, sbatch>>]_vars

\* a Delete removed a row and kept one, with an older entry in the buffer
C33_Witness ==
    /\ lastDeleted.n >= 1
    /\ rows # <<>>
    /\ \A i \in 1..Len(rows) : rows[i].e.ts >= dcutoff
    /\ \E i \in 1..Len(buffer) : buffer[i].ts < dcutoff


\* C35: with retentionDays > 0 the worker runs a deletion at once on startup
\* and then one per tick until its context is cancelled, each run deleting
\* the rows older than now - retentionDays x 24 h and no others; with
\* retentionDays = 0 it never runs and never deletes
C35_RetentionRuns ==
    /\ [][/\ (rpc = "run" /\ rpc' # "run") =>
                IF RetentionDays > 0
                   THEN totalRuns' = totalRuns + 1 /\ rpc' = "loop"
                   ELSE rpc' = "done"
          /\ totalRuns' # totalRuns =>
                /\ RetentionDays > 0
                /\ rpc # "done"
                /\ logAges' \subseteq logAges
                /\ \A a \in logAges \ logAges' : a > RetentionDays
                /\ logAges' # logAges =>
                      \A a \in logAges' : a <= RetentionDays
          /\ (totalRuns' = totalRuns \/ RetentionDays = 0) =>
                logAges \subseteq logAges']_vars
    /\ (rpc = "run" /\ RetentionDays > 0) ~> (totalRuns >= 1)
    /\ (rpc = "loop" /\ rctx) ~> (rpc = "done" \/ totalRuns = MaxRuns)


\* C32: GetByID of an absent id returns the not-found sentinel from the
\* store and through the remote path: the server answers NOT_FOUND for the
\* store's not-found and INTERNAL for any other store error, the client
\* turns NOT_FOUND back into the sentinel and returns every other status
\* unchanged
C32_NotFoundRoundTrip ==
    [][/\ (gpc = "rpc" /\ gpc' = "resp" /\ gstore' # NoEntry) =>
             /\ (~closed /\ gstore'.err # "query"
                   /\ \A i \in 1..Len(rows) : rows[i].id # gid)
                   => gstore'.err = "ErrNotFound"
             /\ gstore'.err = "ErrNotFound" <=> gcode' = "NotFound"
             /\ gstore'.err \in {"query", "ErrStorageClosed"}
                   => gcode' = "Internal"
       /\ (gpc = "resp" /\ gpc' = "idle") =>
             /\ gcode = "NotFound" => gres'.err = "ErrNotFound"
             /\ gcode \in Codes \ {"OK", "NotFound"} => gres'.err = gcode
             /\ gcode = "OK" => gres' = [id |-> gid, err |-> None]]_vars

C32_Witness ==
    /\ gpc = "idle"
    /\ gres.err = "ErrNotFound"
    /\ gstore.err = "ErrNotFound"
    /\ rows # <<>>
    /\ \A i \in 1..Len(rows) : rows[i].id # gid


\* C34: opening a database whose table logs lacks the column dedup_hash, or
\* has it without the unique index, ends without error and leaves, for every
\* computed dedup hash, exactly the row of smallest id, no NULL dedup_hash,
\* and the index idx_logs_dedup
C34_MigrationDedups ==
    mpc \in {"done", "failed"} =>
        /\ mpc = "done"
        /\ merr = None
        /\ hasColumn /\ hasIndex
        /\ mtable \subseteq {[r EXCEPT !.dh = r.h] : r \in morig}
        /\ \A r \in mtable : r.dh = r.h
        /\ \A r \in morig :
              (\E k \in mtable : k.id = r.id)
                 <=> ~\E r2 \in morig : r2.h = r.h /\ r2.id < r.id


\* a stream for key k is registered and running, and not cancelled
StreamLive(k) ==
    /\ mstreams[k] # None
    /\ cpc[mstreams[k]] \in {"run", "tail"}
    /\ ~sctx[mstreams[k]]

\* the stream goroutine of call c has been started
StreamRan(c) ==
    cpc[c] \in {"run", "tail", "exited", "deleted", "released", "done"}

\* StartStream call c was made for a STARTED event that followed a STOPPED
\* event for the same container, and it has returned
RestartHandled(c) ==
    /\ cpc[c] \in {"returned"} \/ StreamRan(c)
    /\ \E i, j \in 1..Len(received) :
          /\ i < j
          /\ received[i] = [type |-> "STOPPED", ref |-> keyOf[c]]
          /\ received[j] = [type |-> "STARTED", ref |-> c]
          /\ \A n \in (i + 1)..(j - 1) :
                ~(received[n].type = "STARTED"
                    /\ keyOf[received[n].ref] = keyOf[c])

\* C36: once a STOPPED event and then a STARTED event for the same container
\* have both been handled, a stream for it is eventually registered and
\* running, whether or not the cancelled old stream had exited when
\* StartStream was called; so when no stream is registered for it any more,
\* the stream started for the STARTED event has run
C36_RestartStreams ==
    /\ [](\A c \in Calls :
             (RestartHandled(c) /\ mstreams[keyOf[c]] = None) => StreamRan(c))
    /\ \A c \in Calls :
          RestartHandled(c) ~> (StreamRan(c) \/ StreamLive(keyOf[c]))


\* StartStream call c waits for a slot while a STOPPED event for a container
\* with a registered stream is the next event in the channel
StopBehindStart(c, k) ==
    /\ cpc[c] = "acquire"
    /\ streamSem = maxStreams
    /\ evq # <<>>
    /\ Head(evq) = [type |-> "STOPPED", ref |-> k]
    /\ mstreams[k] # None

\* C38: while a StartStream call waits for a free slot the collector still
\* takes STOPPED events and applies StopStream to active streams, so the
\* waiting call eventually gets its slot
C38_StopWhileWaiting ==
    /\ [](\A c \in Calls, k \in Keys :
             StopBehindStart(c, k) => ENABLED LoopStop(k))
    /\ \A c \in Calls, k \in Keys :
          StopBehindStart(c, k) ~> (cpc[c] # "acquire")


\* C40: a batch leaves the retry queue only when a store write of that batch
\* has succeeded or when it is dropped as the oldest on overflow, also when
\* the collector's final Flush runs while a retry is under way
C40_RetryRemoval ==
    [][\A i \in 1..Len(retryQueue) :
          retryQueue[i] \notin Range(retryQueue')
             => Range(retryQueue[i]) \subseteq written' \cup dropped']_vars


\* discovery tracks container c as running
TrackedRunning(c) == containerStates[c].exists /\ containerStates[c].running

\* the last event emitted for container c was a STARTED event, and it was
\* dropped
StartLost(c) ==
    \E i \in evDropped :
        /\ emitted[i] = PodEvent(ContainerStarted, c)
        /\ \A j \in (i + 1)..Len(emitted) : emitted[j].container # c

\* the last STARTED event emitted for container c reached the main loop
StartDelivered(c) ==
    \E i \in Range(evReceived) :
        /\ emitted[i] = PodEvent(ContainerStarted, c)
        /\ \A j \in (i + 1)..Len(emitted) :
              emitted[j] # PodEvent(ContainerStarted, c)

\* C39: a container that discovery tracks as running eventually has its
\* STARTED event delivered to the collector (or is tracked as stopped again):
\* a STARTED event dropped on the timeout is emitted again on the next pod
\* update or resync that still shows the container running
C39_DroppedStartRederived ==
    /\ [][\A c \in DContainers :
            (/\ podLife' = "present"
             /\ ncalls' = ncalls + 1
             /\ StartLost(c)
             /\ TrackedRunning(c)
             /\ c \in DOMAIN podObj'
             /\ podObj'[c].running)
               => \E i \in Range(toEmit') :
                     emitted'[i] = PodEvent(ContainerStarted, c)]_vars
    /\ \A c \in DContainers :
          (TrackedRunning(c) /\ ~cctx)
             ~> (cctx \/ ~TrackedRunning(c) \/ StartDelivered(c))

====
